---- MODULE Spec2Model ----
(***************************************************************************)
(* The CEF host bridge of tools/cef_host_bridge/src/main.cpp: the main     *)
(* (control) thread that owns the CEF message loop, and http_thread, which *)
(* runs ServeHttp.  SharedState is the record `state`; state->mu and       *)
(* g_browser_mu are the two mutexes.  Every lock, unlock, field access,    *)
(* send and close of the code is one step of a thread, so that the lock    *)
(* discipline is something the model checker decides, not an assumption.   *)
(*                                                                         *)
(* Strings the code parses are sequences of one-character strings; fixed   *)
(* texts (error messages, titles) are plain strings.                       *)
(***************************************************************************)
EXTENDS Integers, Sequences, FiniteSets, TLC

\* Bounds of the model (not program constants): the connections the listener
\* accepts, and the paint and title callbacks the engine delivers.
MaxRequests == 1
MaxCallbacks == 1
MaxText == 3
MaxPairs == 2

\* Args defaults.
view_width == 1024
view_height == 640
INT32_MAX == 2147483647

\* The VGA text screen of the driver.
VGA_COLS == 80
VGA_ROWS == 25

Threads == {"main", "http"}
Mutexes == {"mu", "g_browser_mu"}

VARIABLES
  state,          \* SharedState (every field but mu)
  locks,          \* owner of state->mu and of g_browser_mu ("none" when free)
  g_browser,      \* g_browser is non-null
  ui_queue,       \* tasks posted to TID_UI with CefPostTask, not yet executed
  cef,            \* the engine: its browser, CefQuitMessageLoop() called, last call,
                  \* and the urls it was told to load
  pc,             \* where each thread is in its code
  work,           \* the steps each thread still has to take before pc
  snap,           \* each thread's locals read from state / g_browser
  conn,           \* the connection http_thread accepted last
  nreq,           \* connections accepted so far
  ncallback,      \* paints stored and title changes delivered so far
  unlocked,       \* history: accesses to state made without holding state->mu
  accepts_after_stop   \* history: accept() calls made while running was false

vars == <<state, locks, g_browser, ui_queue, cef, pc, work, snap, conn,
          nreq, ncallback, unlocked, accepts_after_stop>>

----------------------------------------------------------------------------
(* Text helpers                                                            *)

Digits == <<"0", "1", "2", "3", "4", "5", "6", "7", "8", "9">>
IsDigit(c) == \E i \in 1..10 : Digits[i] = c
DigitVal(c) == (CHOOSE i \in 1..10 : Digits[i] = c) - 1
IsSpace(c) == c \in {" ", "\t", "\n", "\r", "\f"}

\* strtol(text, &end, 10) on a long that holds every int32 (LP64): the value,
\* the index of the first character not consumed (Len+1: all consumed; 1: no
\* conversion), and whether the value left the int32 range.
RECURSIVE StrtolDigits(_, _, _, _)
StrtolDigits(text, i, acc, big) ==
  IF i > Len(text) \/ ~IsDigit(text[i])
    THEN [value |-> acc, end |-> i, big |-> big]
    ELSE LET d == DigitVal(text[i])
             over == big \/ acc > (INT32_MAX - d) \div 10
         IN StrtolDigits(text, i + 1, IF over THEN INT32_MAX ELSE acc * 10 + d, over)

RECURSIVE SkipSpace(_, _)
SkipSpace(text, i) ==
  IF i <= Len(text) /\ IsSpace(text[i]) THEN SkipSpace(text, i + 1) ELSE i

Strtol10(text) ==
  LET s == SkipSpace(text, 1)
      neg == s <= Len(text) /\ text[s] = "-"
      d0 == IF s <= Len(text) /\ text[s] \in {"-", "+"} THEN s + 1 ELSE s
      r == StrtolDigits(text, d0, 0, FALSE)
  IN IF r.end = d0
       THEN [value |-> 0, end |-> 1, big |-> FALSE]
       ELSE [value |-> IF neg THEN 0 - r.value ELSE r.value, end |-> r.end, big |-> r.big]

\* The byte 0, which UrlDecode makes of %00 and a std::string can hold.
Nul == "NUL"

\* text.c_str() as strtol reads it: the characters before the first byte 0.
CStr(text) ==
  LET zeros == {i \in 1..Len(text) : text[i] = Nul}
  IN IF zeros = {} THEN text
     ELSE SubSeq(text, 1, (CHOOSE i \in zeros : \A j \in zeros : i <= j) - 1)

\* ParseIntDefault: the fallback for an empty text, for a character left
\* where strtol stopped (`*end != '\0'`) and for a value outside int32.
ParseIntDefault(text, fallback) ==
  IF text = <<>> THEN fallback
  ELSE LET c == CStr(text)
           r == Strtol10(c)
       IN IF r.end # Len(c) + 1 THEN fallback
          ELSE IF r.big THEN fallback
          ELSE r.value

\* The sixteen hexadecimal digits, in lower and in upper case.
HexLower == <<"0", "1", "2", "3", "4", "5", "6", "7", "8", "9", "a", "b", "c", "d", "e", "f">>
HexUpper == <<"0", "1", "2", "3", "4", "5", "6", "7", "8", "9", "A", "B", "C", "D", "E", "F">>
IsHex(c) == \E i \in 1..16 : HexLower[i] = c \/ HexUpper[i] = c
HexVal(c) == (CHOOSE i \in 1..16 : HexLower[i] = c \/ HexUpper[i] = c) - 1

\* static_cast<char>(v & 0xFF): the character with that code (those a
\* request of the model can produce; "x.." names one that has no glyph).
Chr(v) ==
  CASE v = 0 -> Nul [] v = 1 -> "x01" [] v = 4 -> "x04" [] v = 12 -> "\f"
    [] v = 17 -> "x11" [] v = 20 -> "x14" [] v = 32 -> " " [] v = 37 -> "%"
    [] v = 38 -> "&" [] v = 43 -> "+" [] v = 61 -> "=" [] v = 65 -> "A"
    [] v = 68 -> "D" [] v = 97 -> "a" [] v = 98 -> "b" [] v = 252 -> "xFC"
    [] v = 255 -> "xFF" [] OTHER -> "x??"

\* strtol(hex.c_str(), &end, 16) on the two characters after a '%': leading
\* white space and one sign are accepted before the digits; `ok` is
\* `*end == '\0'`, `value` the long returned.
Strtol16(hex) ==
  LET c == CStr(hex)
      s == SkipSpace(c, 1)
      neg == s <= Len(c) /\ c[s] = "-"
      d0 == IF s <= Len(c) /\ c[s] \in {"-", "+"} THEN s + 1 ELSE s
      n == IF d0 <= Len(c) /\ IsHex(c[d0])
             THEN IF d0 + 1 <= Len(c) /\ IsHex(c[d0 + 1]) THEN 2 ELSE 1
             ELSE 0
      v == IF n = 2 THEN 16 * HexVal(c[d0]) + HexVal(c[d0 + 1])
           ELSE IF n = 1 THEN HexVal(c[d0]) ELSE 0
  IN [ ok |-> IF n = 0 THEN c = <<>> ELSE d0 + n = Len(c) + 1,
       value |-> IF neg THEN 0 - v ELSE v ]

\* UrlDecode: '+' becomes a space; '%' with two more characters that strtol
\* reads to their end becomes the byte `v & 0xFF`; anything else is copied.
RECURSIVE UrlDecodeFrom(_, _)
UrlDecodeFrom(text, i) ==
  IF i > Len(text) THEN <<>>
  ELSE IF text[i] = "+" THEN <<" ">> \o UrlDecodeFrom(text, i + 1)
  ELSE IF text[i] = "%" /\ i + 2 <= Len(text)
             /\ Strtol16(<<text[i + 1], text[i + 2]>>).ok
    THEN << Chr(Strtol16(<<text[i + 1], text[i + 2]>>).value % 256) >>
           \o UrlDecodeFrom(text, i + 3)
  ELSE <<text[i]>> \o UrlDecodeFrom(text, i + 1)

UrlDecode(text) == UrlDecodeFrom(text, 1)

\* std::string::find(c, i): the first position of c at or after i, 0 for npos.
RECURSIVE FindChar(_, _, _)
FindChar(text, c, i) ==
  IF i > Len(text) THEN 0 ELSE IF text[i] = c THEN i ELSE FindChar(text, c, i + 1)

\* std::map::emplace, which keeps an entry the map already has.
MapEmplace(out, key, value) ==
  [k \in DOMAIN out \cup {key} |-> IF k \in DOMAIN out THEN out[k] ELSE value]

\* out[key] = value: std::map assignment, which overwrites.
MapAssign(out, key, value) ==
  [k \in DOMAIN out \cup {key} |-> IF k = key THEN value ELSE out[k]]

\* ParseUrlEncoded, one pair of the loop: skipped when empty, split at its
\* first '=', both sides decoded.
PutPair(out, pair) ==
  IF pair = <<>> THEN out
  ELSE LET eq == FindChar(pair, "=", 1)
       IN IF eq = 0
            THEN MapAssign(out, UrlDecode(pair), <<>>)
            ELSE MapAssign(out, UrlDecode(SubSeq(pair, 1, eq - 1)),
                           UrlDecode(SubSeq(pair, eq + 1, Len(pair))))

\* ParseUrlEncoded: std::getline(ss, pair, '&') until the text is used up.
RECURSIVE ParseUrlEncodedFrom(_, _)
ParseUrlEncodedFrom(text, out) ==
  IF text = <<>> THEN out
  ELSE LET amp == FindChar(text, "&", 1)
           pair == IF amp = 0 THEN text ELSE SubSeq(text, 1, amp - 1)
           rest == IF amp = 0 THEN <<>> ELSE SubSeq(text, amp + 1, Len(text))
       IN ParseUrlEncodedFrom(rest, PutPair(out, pair))

ParseUrlEncoded(text) == ParseUrlEncodedFrom(text, [k \in {} |-> <<>>])

UpperCase ==
  << "A", "B", "C", "D", "E", "F", "G", "H", "I", "J", "K", "L", "M",
     "N", "O", "P", "Q", "R", "S", "T", "U", "V", "W", "X", "Y", "Z" >>
LowerCase ==
  << "a", "b", "c", "d", "e", "f", "g", "h", "i", "j", "k", "l", "m",
     "n", "o", "p", "q", "r", "s", "t", "u", "v", "w", "x", "y", "z" >>
ToLowerChar(c) ==
  IF \E i \in 1..26 : UpperCase[i] = c
    THEN LowerCase[CHOOSE i \in 1..26 : UpperCase[i] = c]
    ELSE c
ToLowerAscii(text) == [i \in 1..Len(text) |-> ToLowerChar(text[i])]

RECURSIVE JsonEscape(_)
JsonEscape(in) ==
  IF in = <<>> THEN <<>>
  ELSE LET c == Head(in)
           e == CASE c = "\\" -> <<"\\", "\\">>
                  [] c = "\"" -> <<"\\", "\"">>
                  [] c = "\n" -> <<"\\", "n">>
                  [] c = "\r" -> <<"\\", "r">>
                  [] c = "\t" -> <<"\\", "t">>
                  [] OTHER -> <<c>>
       IN e \o JsonEscape(Tail(in))

\* The characters below U+0020 that a string can hold here.
ControlChars == {"\n", "\r", "\t", "\f"}

\* What a JSON reader makes of the characters between two quotes: a raw
\* quote or control character is an error, a backslash starts an escape.
\* (\b and \uXXXX are left out: JsonEscape never writes them.)
RECURSIVE JsonUnescape(_)
JsonUnescape(text) ==
  LET bad == [ok |-> FALSE, value |-> <<>>]
      then(c, rest) == IF rest.ok THEN [ok |-> TRUE, value |-> <<c>> \o rest.value] ELSE bad
  IN IF text = <<>> THEN [ok |-> TRUE, value |-> <<>>]
     ELSE IF Head(text) = "\\"
       THEN IF Len(text) < 2 \/ text[2] \notin {"\"", "\\", "/", "n", "r", "t", "f"}
              THEN bad
              ELSE then(CASE text[2] = "n" -> "\n"
                          [] text[2] = "r" -> "\r"
                          [] text[2] = "t" -> "\t"
                          [] text[2] = "f" -> "\f"
                          [] OTHER -> text[2],
                        JsonUnescape(SubSeq(text, 3, Len(text))))
     ELSE IF Head(text) = "\"" \/ Head(text) \in ControlChars THEN bad
     ELSE then(Head(text), JsonUnescape(Tail(text)))

\* An escape that leaves the quote as it is.
RECURSIVE JsEscapeButQuote(_)
JsEscapeButQuote(in) ==
  IF in = <<>> THEN <<>>
  ELSE LET c == Head(in)
           e == CASE c = "\\" -> <<"\\", "\\">>
                  [] c = "\n" -> <<"\\", "n">>
                  [] c = "\r" -> <<"\\", "r">>
                  [] OTHER -> <<c>>
       IN e \o JsEscapeButQuote(Tail(in))

RECURSIVE JsSingleQuoteEscape(_)
JsSingleQuoteEscape(in) ==
  IF in = <<>> THEN <<>>
  ELSE LET c == Head(in)
           e == CASE c = "\\" -> <<"\\", "\\">>
                  [] c = "'" -> <<"\\", "'">>
                  [] c = "\n" -> <<"\\", "n">>
                  [] c = "\r" -> <<"\\", "r">>
                  [] OTHER -> <<c>>
       IN e \o JsSingleQuoteEscape(Tail(in))

\* rfind(':') : the last index holding c, 0 for npos.
RECURSIVE RFind(_, _, _)
RFind(text, c, i) ==
  IF i = 0 THEN 0 ELSE IF text[i] = c THEN i ELSE RFind(text, c, i - 1)

\* ParseBindAddr: [ok, host, port].
ParseBindAddr(bind_addr) ==
  LET colon == RFind(bind_addr, ":", Len(bind_addr))
  IN IF colon = 0 \/ colon = 1 \/ colon + 1 > Len(bind_addr)
       THEN [ok |-> FALSE, host |-> <<>>, port |-> 0]
       ELSE LET host == SubSeq(bind_addr, 1, colon - 1)
                port_str == SubSeq(bind_addr, colon + 1, Len(bind_addr))
                r == Strtol10(port_str)
            IN IF r.end # Len(port_str) + 1 \/ r.big \/ r.value <= 0 \/ r.value > 65535
                 THEN [ok |-> FALSE, host |-> host, port |-> 0]
                 ELSE [ok |-> TRUE, host |-> host, port |-> r.value]

----------------------------------------------------------------------------
(* Inputs                                                                  *)

NoParams == [k \in {} |-> <<>>]
NoLocals == [k \in {} |-> 0]

\* Args: --bind and --url.
BindAddrs ==
  { <<"1", "2", "7", ".", "0", ".", "0", ".", "1", ":", "8", "0">>,
    <<"b", "a", "d">> }
start_url == <<"s">>

Request(path, query) ==
  [method |-> "get", path |-> path, query |-> query, form |-> NoParams]

\* A request whose parameters come in a body of type
\* application/x-www-form-urlencoded.
Post(path, form) ==
  [method |-> "post", path |-> path, query |-> NoParams, form |-> form]

\* --bind values that ServeHttp refuses: no port, a host that is neither
\* dotted IPv4 nor localhost, and ports 0 and 65536.
BadBindAddrs ==
  { <<"b", "a", "d">>,
    <<"h", ":", "8", "0">>,
    <<"1", "2", "7", ".", "0", ".", "0", ".", "1", ":", "0">>,
    <<"1", "2", "7", ".", "0", ".", "0", ".", "1", ":", "6", "5", "5", "3", "6">> }

\* --bind values that ServeHttp takes.
GoodBindAddrs ==
  { <<"1", "2", "7", ".", "0", ".", "0", ".", "1", ":", "8", "0">>,
    <<"l", "o", "c", "a", "l", "h", "o", "s", "t", ":", "6", "5", "5", "3", "5">> }

\* The requests a client sends: every route, with and without its parameters.
AllRequests ==
  { Request("/status", NoParams),
    Request("/open", [url |-> <<"a">>]),
    Request("/open", NoParams),
    Post("/open", [url |-> <<"b", "\"">>]),
    Request("/open", [url |-> <<"\f">>]),
    Request("/eval", [js |-> <<"j">>]),
    Request("/eval", NoParams),
    Request("/input", NoParams),
    Request("/input", [type |-> <<"c", "l", "i", "c", "k">>, x |-> <<"5">>, y |-> <<"7">>]),
    Request("/input", [type |-> <<"C", "L", "I", "C", "K">>, x |-> <<"5">>]),
    Request("/input", [type |-> <<"s", "c", "r", "o", "l", "l">>]),
    Request("/input", [type |-> <<"s", "c", "r", "o", "l", "l">>, x |-> <<"3">>, y |-> <<"4">>,
                       delta |-> <<"-", "9">>]),
    Request("/input", [type |-> <<"t", "e", "x", "t">>, text |-> <<"i", "'">>]),
    Request("/input", [type |-> <<"b", "o", "g", "u", "s">>]),
    Request("/frame", NoParams),
    Request("/quit", NoParams),
    Request("/nope", NoParams) }

\* One well-formed request for every route and every kind of /input.
Requests ==
  { Request("/status", NoParams),
    Request("/open", [url |-> <<"a">>]),
    Request("/eval", [js |-> <<"j">>]),
    Request("/input", [type |-> <<"c", "l", "i", "c", "k">>, x |-> <<"5">>, y |-> <<"7">>]),
    Request("/input", [type |-> <<"s", "c", "r", "o", "l", "l">>]),
    Request("/input", [type |-> <<"t", "e", "x", "t">>, text |-> <<"i", "'">>]),
    Request("/frame", NoParams),
    Request("/quit", NoParams),
    Request("/nope", NoParams) }

\* The requests of the shutdown scenarios.
QuitRequests ==
  { Request("/quit", NoParams),
    Request("/open", [url |-> <<"a">>]) }

\* The requests whose commands the control thread executes.
TaskRequests ==
  { Request("/open", [url |-> <<"a">>]),
    Request("/open", [url |-> <<"b">>]),
    Request("/eval", [js |-> <<"j">>]),
    Request("/input", [type |-> <<"c", "l", "i", "c", "k">>, x |-> <<"5">>, y |-> <<"7">>]) }

\* The requests that read what the paint callback stored.
FrameRequests ==
  { Request("/frame", NoParams),
    Request("/input", [type |-> <<"s", "c", "r", "o", "l", "l">>]),
    Request("/input", [type |-> <<"s", "c", "r", "o", "l", "l">>, x |-> <<"3">>, y |-> <<"4">>,
                       delta |-> <<"-", "9">>]) }

\* /input?type=click with each of these texts as x, with and without y.
ClickTexts ==
  { <<"5">>, <<"0">>, <<>>, <<"-", "1">>, <<"5", "x">>, <<" ", "5">>, <<"+", "5">>,
    <<"2", "1", "4", "7", "4", "8", "3", "6", "4", "7">>,
    <<"2", "1", "4", "7", "4", "8", "3", "6", "4", "8">>,
    <<Nul>>, <<"5", Nul, "x">> }

ClickRequests ==
  { Request("/input", [type |-> <<"c", "l", "i", "c", "k">>, x |-> x, y |-> <<"7">>]) :
      x \in ClickTexts }
    \cup { Request("/input", [type |-> <<"c", "l", "i", "c", "k">>, y |-> y]) :
             y \in {<<"7">>, <<Nul>>} }
    \cup { Request("/input", [type |-> <<"c", "l", "i", "c", "k">>, x |-> <<Nul>>, y |-> <<Nul>>]) }

\* The texts given to UrlDecode: every string up to MaxText characters over
\* '%', '+', two hexadecimal digits, a letter that is none, '-' and ' '.
DecodeAlphabet == {"%", "+", "4", "1", "g", "-", " "}
DecodeTexts == UNION { [1..n -> DecodeAlphabet] : n \in 0..MaxText }

\* Arguments of BuildInputScript: /input requests of type text and key whose
\* string is any text of backslashes, quotes, line ends and a letter, and a
\* key request without a key.
ScriptAlphabet == {"\\", "'", "\n", "\r", "a"}
ScriptTexts == UNION { [1..n -> ScriptAlphabet] : n \in 0..MaxText }
ScriptRequests ==
  { Request("/input", [type |-> <<"t", "e", "x", "t">>, text |-> t]) : t \in ScriptTexts }
    \cup { Request("/input", [type |-> <<"k", "e", "y">>, key |-> t]) : t \in ScriptTexts }
    \cup { Request("/input", [type |-> <<"K", "e", "y">>]) }

\* Arguments of ParseUrlEncoded: up to MaxPairs pairs joined by '&'; a pair is
\* empty, a bare key, a key with a value, has a second '=', or has an encoded
\* 'a', '&' or '='.
FormPairs ==
  { <<>>,
    <<"a">>,
    <<"a", "=", "1">>,
    <<"a", "=", "2">>,
    <<"=", "1">>,
    <<"a", "=", "1", "=", "2">>,
    <<"%", "6", "1", "=", "2">>,
    <<"%", "2", "6", "=", "%", "3", "D">> }

RECURSIVE JoinPairs(_)
JoinPairs(pairs) ==
  IF pairs = <<>> THEN <<>>
  ELSE IF Len(pairs) = 1 THEN pairs[1]
  ELSE pairs[1] \o <<"&">> \o JoinPairs(Tail(pairs))

FormTexts == { JoinPairs(pairs) : pairs \in UNION { [1..n -> FormPairs] : n \in 0..MaxPairs } }

\* What the peer of an accepted connection does: sends a request, sends bytes
\* that are no request, closes without sending, or stays silent.
Sending(requests) == { [kind |-> "request", req |-> r, wire |-> <<>>] : r \in requests }
Peer(kinds) == { [kind |-> k, req |-> Request("", NoParams), wire |-> <<>>] : k \in kinds }

\* Pieces of a request as it is on the wire.
CRLF == <<"\r", "\n">>
HTTP11 == <<"H", "T", "T", "P", "/", "1", ".", "1">>
GET(target) == <<"G", "E", "T", " ">> \o target \o <<" ">> \o HTTP11 \o CRLF
POST(target) == <<"P", "O", "S", "T", " ">> \o target \o <<" ">> \o HTTP11 \o CRLF
ContentLengthLine(n) ==
  <<"C", "o", "n", "t", "e", "n", "t", "-", "L", "e", "n", "g", "t", "h", ":", " ">>
    \o n \o CRLF
FormTypeLine ==
  <<"C", "o", "n", "t", "e", "n", "t", "-", "T", "y", "p", "e", ":", " ">>
    \o <<"a", "p", "p", "l", "i", "c", "a", "t", "i", "o", "n", "/", "x", "-", "w", "w",
         "w", "-", "f", "o", "r", "m", "-", "u", "r", "l", "e", "n", "c", "o", "d", "e",
         "d">> \o CRLF
StatusTarget == <<"/", "s", "t", "a", "t", "u", "s">>
OpenTarget == <<"/", "o", "p", "e", "n">>
OpenUrlTarget(url) == OpenTarget \o <<"?", "u", "r", "l", "=">> \o url

\* What a peer sends before it closes: whole requests, requests cut short in
\* the head or in the body, and bytes that are no request.
WholeWires ==
  { GET(StatusTarget) \o CRLF,
    GET(OpenUrlTarget(<<"a">>)) \o CRLF,
    GET(StatusTarget \o <<"/">>) \o CRLF,
    <<"G", "E", "T", " ">> \o StatusTarget \o <<" ">> \o HTTP11 \o <<" ", "x">> \o CRLF \o CRLF,
    POST(OpenTarget) \o FormTypeLine \o ContentLengthLine(<<"5">>) \o CRLF
      \o <<"u", "r", "l", "=", "b">> }
CutWires ==
  { POST(OpenTarget) \o FormTypeLine \o ContentLengthLine(<<"5">>) \o CRLF \o <<"u", "r">>,
    POST(OpenUrlTarget(<<"a">>)) \o ContentLengthLine(<<"5">>) \o CRLF \o <<"x">>,
    GET(StatusTarget),
    <<"G", "E", "T">> }
BadWires ==
  { <<"G", "E", "T", " ">> \o StatusTarget \o CRLF \o CRLF,
    CRLF \o CRLF,
    <<>> }
WireTexts == WholeWires \cup CutWires \cup BadWires

\* Requests for paths that are close to a route's but are not it.
NearStatusWires ==
  { GET(StatusTarget \o <<"/">>) \o CRLF,
    GET(<<"/", "S", "T", "A", "T", "U", "S">>) \o CRLF,
    GET(<<"/", "s", "t", "a", "t", "u", "s", "%", "2", "0">>) \o CRLF,
    GET(<<"/", "f", "r", "a", "m", "e", "s">>) \o CRLF }

\* A POST with a body, with or without the form content type.
FormPost(target, body, length) ==
  POST(target) \o FormTypeLine \o ContentLengthLine(length) \o CRLF \o body
PlainPost(target, body, length) ==
  POST(target) \o ContentLengthLine(length) \o CRLF \o body

EvalTarget == <<"/", "e", "v", "a", "l">>

\* /open and /eval requests whose parameter is in the query string, in the
\* form body, in both, or in neither.
ParamWires ==
  { FormPost(OpenUrlTarget(<<>>), <<"u", "r", "l", "=", "b">>, <<"5">>),
    FormPost(OpenTarget \o <<"?", "u", "r", "l">>, <<"u", "r", "l", "=", "b">>, <<"5">>),
    FormPost(OpenUrlTarget(<<"a">>), <<"u", "r", "l", "=", "b">>, <<"5">>),
    FormPost(OpenTarget, <<"u", "r", "l", "=", "b">>, <<"5">>),
    FormPost(OpenTarget \o <<"?", "x", "=", "1">>, <<"u", "r", "l", "=", "b">>, <<"5">>),
    PlainPost(OpenTarget, <<"u", "r", "l", "=", "b">>, <<"5">>),
    GET(OpenUrlTarget(<<"a">>)) \o CRLF,
    FormPost(EvalTarget \o <<"?", "j", "s", "=">>, <<"j", "s", "=", "j">>, <<"4">>),
    FormPost(EvalTarget, <<"j", "s", "=", "j">>, <<"4">>) }

\* A peer that sends the bytes of a text and then closes its end.
Wire(texts) == { [kind |-> "wire", req |-> Request("", NoParams), wire |-> w] : w \in texts }
Clients == Sending(Requests) \cup Peer({"garbage", "stall"})
AllClients == Sending(AllRequests) \cup Peer({"garbage", "empty", "stall"})
QuitClients == Sending(QuitRequests) \cup Peer({"stall"})
TaskClients == Sending(TaskRequests) \cup Peer({"stall"})
FrameClients == Sending(FrameRequests) \cup Peer({"stall"})
ClickClients == Sending(ClickRequests) \cup Peer({"stall"})
ReadRequests ==
  { Request("/status", NoParams),
    Request("/frame", NoParams),
    Request("/nope", NoParams),
    Request("/input", [type |-> <<"s", "c", "r", "o", "l", "l">>]) }
ReadClients == Sending(ReadRequests) \cup Wire(NearStatusWires) \cup Peer({"stall"})
ParamClients == Wire(ParamWires) \cup Peer({"stall"})
WireClients == Wire(WireTexts) \cup Peer({"stall"})

\* OnPaint arguments: width, height and a BGRA buffer of width*height*4 bytes.
PaintSizes == { <<1, 1>>, <<2, 1>> }
PaintBuffer(w, h) == [i \in 1..(w * h * 4) |-> (16 * w + i) % 256]
Titles == { "T" }

----------------------------------------------------------------------------
(* The steps a thread takes                                                *)

Lock(m) == [op |-> "lock", m |-> m]
Unlock(m) == [op |-> "unlock", m |-> m]
Read(f) == [op |-> "read", f |-> f]
Write(f, v) == [op |-> "write", f |-> f, v |-> v]
Inc(f) == [op |-> "inc", f |-> f]
ReadBrowser == [op |-> "read_browser"]
WriteBrowser(b) == [op |-> "write_browser", v |-> b]
Engine(call) == [op |-> "engine", call |-> call]
Send(status, body) == [op |-> "send", status |-> status, body |-> body]
CloseSocket == [op |-> "close"]

SetGlobalBrowser(browser) ==
  << Lock("g_browser_mu"), WriteBrowser(browser), Unlock("g_browser_mu") >>

GetGlobalBrowser ==
  << Lock("g_browser_mu"), ReadBrowser, Unlock("g_browser_mu") >>

SetError(err) == << Lock("mu"), Write("last_error", err), Unlock("mu") >>

SetRunning(running) == << Lock("mu"), Write("running", running), Unlock("mu") >>

\* IsRunning whose lock outlives the call.
IsRunningHeld == << Lock("mu"), Read("running") >>

IsRunning == << Lock("mu"), Read("running"), Unlock("mu") >>

\* A SetCurrentUrl that also forgets the last error.
SetCurrentUrlClearingError(url) ==
  << Lock("mu"), Write("current_url", url), Write("last_error", ""), Unlock("mu") >>

SetCurrentUrl(url) == << Lock("mu"), Write("current_url", url), Unlock("mu") >>

\* SetTitle without the lock_guard.
SetTitleUnlocked(title) == << Write("title", title) >>

SetTitle(title) == << Lock("mu"), Write("title", title), Unlock("mu") >>

StatusFields ==
  << "running", "bind_addr", "current_url", "title", "open_requests",
     "eval_requests", "input_requests", "frame_capture", "frame_width",
     "frame_height", "frame_seq", "last_error", "last_ipc" >>

\* A /status that counts itself.
BuildStatusJsonCounting ==
  << Lock("mu"), Inc("open_requests") >>
    \o [i \in 1..Len(StatusFields) |-> Read(StatusFields[i])] \o << Unlock("mu") >>

BuildStatusJson ==
  << Lock("mu") >> \o [i \in 1..Len(StatusFields) |-> Read(StatusFields[i])]
    \o << Unlock("mu") >>

\* The JSON document of /status: the values read, strings JSON-escaped.
StatusJson(s) ==
  [ ok |-> TRUE, backend |-> "cef", mode |-> "host-http-bridge",
    running |-> s.running,
    bind_addr |-> JsonEscape(s.bind_addr),
    current_url |-> JsonEscape(s.current_url),
    title |-> s.title,
    open_requests |-> s.open_requests,
    eval_requests |-> s.eval_requests,
    input_requests |-> s.input_requests,
    frame_capture |-> s.frame_capture,
    frame_width |-> s.frame_width,
    frame_height |-> s.frame_height,
    frame_seq |-> s.frame_seq,
    last_error |-> s.last_error,
    last_ipc |-> s.last_ipc ]

Held(t) == { m \in Mutexes : locks[m] = t }
Next1(t) == Head(work[t])
Busy(t) == work[t] # <<>>
Pop(t) == work' = [work EXCEPT ![t] = Tail(@)]
Started == pc["http"] # "idle"
Access(t, f, kind) == [thr |-> t, f |-> f, kind |-> kind, started |-> Started]
Log(t, f, kind) ==
  unlocked' = IF locks["mu"] = t THEN unlocked ELSE unlocked \cup {Access(t, f, kind)}

DoLock(t) ==
  /\ Busy(t) /\ Next1(t).op = "lock"
  /\ locks[Next1(t).m] = "none"
  /\ locks' = [locks EXCEPT ![Next1(t).m] = t]
  /\ Pop(t)
  /\ UNCHANGED <<state, g_browser, ui_queue, cef, pc, snap, conn, nreq, ncallback,
                 unlocked, accepts_after_stop>>

DoUnlock(t) ==
  /\ Busy(t) /\ Next1(t).op = "unlock"
  /\ locks[Next1(t).m] = t
  /\ locks' = [locks EXCEPT ![Next1(t).m] = "none"]
  /\ Pop(t)
  /\ UNCHANGED <<state, g_browser, ui_queue, cef, pc, snap, conn, nreq, ncallback,
                 unlocked, accepts_after_stop>>

DoRead(t) ==
  /\ Busy(t) /\ Next1(t).op = "read"
  /\ snap' = [snap EXCEPT ![t] = (Next1(t).f :> state[Next1(t).f]) @@ @]
  /\ Log(t, Next1(t).f, "read")
  /\ Pop(t)
  /\ UNCHANGED <<state, locks, g_browser, ui_queue, cef, pc, conn, nreq, ncallback,
                 accepts_after_stop>>

DoWrite(t) ==
  /\ Busy(t) /\ Next1(t).op = "write"
  /\ state' = [state EXCEPT ![Next1(t).f] = Next1(t).v]
  /\ Log(t, Next1(t).f, "write")
  /\ Pop(t)
  /\ UNCHANGED <<locks, g_browser, ui_queue, cef, pc, snap, conn, nreq, ncallback,
                 accepts_after_stop>>

\* An increment that counts twice.
DoIncTwice(t) ==
  /\ Busy(t) /\ Next1(t).op = "inc"
  /\ state' = [state EXCEPT ![Next1(t).f] = @ + 2]
  /\ Log(t, Next1(t).f, "write")
  /\ Pop(t)
  /\ UNCHANGED <<locks, g_browser, ui_queue, cef, pc, snap, conn, nreq, ncallback,
                 accepts_after_stop>>

DoInc(t) ==
  /\ Busy(t) /\ Next1(t).op = "inc"
  /\ state' = [state EXCEPT ![Next1(t).f] = @ + 1]
  /\ Log(t, Next1(t).f, "write")
  /\ Pop(t)
  /\ UNCHANGED <<locks, g_browser, ui_queue, cef, pc, snap, conn, nreq, ncallback,
                 accepts_after_stop>>

DoReadBrowser(t) ==
  /\ Busy(t) /\ Next1(t).op = "read_browser"
  /\ snap' = [snap EXCEPT ![t] = ("browser" :> g_browser) @@ @]
  /\ Pop(t)
  /\ UNCHANGED <<state, locks, g_browser, ui_queue, cef, pc, conn, nreq, ncallback,
                 unlocked, accepts_after_stop>>

DoWriteBrowser(t) ==
  /\ Busy(t) /\ Next1(t).op = "write_browser"
  /\ g_browser' = Next1(t).v
  /\ Pop(t)
  /\ UNCHANGED <<state, locks, ui_queue, cef, pc, snap, conn, nreq, ncallback,
                 unlocked, accepts_after_stop>>

\* A call into the engine: LoadURL, ExecuteJavaScript, SendMouse*Event,
\* SetWindowTitle, WasResized, CefQuitMessageLoop.
DoEngine(t) ==
  /\ Busy(t) /\ Next1(t).op = "engine"
  /\ cef' = [cef EXCEPT !.quit_loop = @ \/ Next1(t).call[1] = "CefQuitMessageLoop",
                        !.last_call = [by |-> t, call |-> Next1(t).call],
                        !.loads = IF Next1(t).call[1] = "LoadURL"
                                    THEN Append(@, Next1(t).call[2]) ELSE @]
  /\ Pop(t)
  /\ UNCHANGED <<state, locks, g_browser, ui_queue, pc, snap, conn, nreq, ncallback,
                 unlocked, accepts_after_stop>>

\* SendHttpResponse: the status line and the body go to the client.
DoSend(t) ==
  /\ Busy(t) /\ Next1(t).op = "send"
  /\ conn' = [conn EXCEPT !.status = Next1(t).status, !.body = Next1(t).body,
                          !.responses = @ + 1]
  /\ Pop(t)
  /\ UNCHANGED <<state, locks, g_browser, ui_queue, cef, pc, snap, nreq, ncallback,
                 unlocked, accepts_after_stop>>

DoClose(t) ==
  /\ Busy(t) /\ Next1(t).op = "close"
  /\ conn' = [conn EXCEPT !.open = FALSE]
  /\ Pop(t)
  /\ UNCHANGED <<state, locks, g_browser, ui_queue, cef, pc, snap, nreq, ncallback,
                 unlocked, accepts_after_stop>>

Step(t) ==
  \/ DoLock(t)
  \/ DoUnlock(t)
  \/ DoRead(t)
  \/ DoWrite(t)
  \/ DoInc(t)
  \/ DoReadBrowser(t)
  \/ DoWriteBrowser(t)
  \/ DoEngine(t)
  \/ DoSend(t)
  \/ DoClose(t)

\* Thread t is at `at` with nothing pending; it goes to `to` with steps `w`.
At(t, at) == pc[t] = at /\ ~Busy(t)
Goto(t, to, w) ==
  /\ pc' = [pc EXCEPT ![t] = to]
  /\ work' = [work EXCEPT ![t] = w]

----------------------------------------------------------------------------
(* The state after std::make_shared<SharedState>()                         *)

\* http_thread has no accepted connection (client == kInvalidSocket).
NoConnection ==
  [ id |-> 0, open |-> FALSE, client |-> "none", req |-> Request("", NoParams),
    wire |-> <<>>, raw |-> <<>>, prev |-> <<>>,
    status |-> 0, body |-> <<>>, responses |-> 0, posted |-> <<>>, rejected |-> 0,
    before |-> <<0, 0, 0>> ]

InitExceptLocals ==
  /\ state = [ running |-> TRUE, bind_addr |-> <<>>, current_url |-> <<>>,
               title |-> "", last_error |-> "", last_ipc |-> "",
               open_requests |-> 0, eval_requests |-> 0, input_requests |-> 0,
               frame_capture |-> FALSE, frame_width |-> 0, frame_height |-> 0,
               frame_seq |-> 0, frame_bgra |-> <<>> ]
  /\ locks = [m \in Mutexes |-> "none"]
  /\ g_browser = FALSE
  /\ ui_queue = <<>>
  /\ cef = [browser |-> "none", quit_loop |-> FALSE,
            last_call |-> [by |-> "none", call |-> <<"none">>], loads |-> <<>>]
  /\ pc = [t \in Threads |-> IF t = "main" THEN "init" ELSE "idle"]
  /\ work = [t \in Threads |-> <<>>]
  /\ conn = NoConnection
  /\ nreq = 0
  /\ ncallback = 0
  /\ unlocked = {}
  /\ accepts_after_stop = 0

Init == InitExceptLocals /\ snap = [t \in Threads |-> NoLocals]

\* A call of a function of the listener on its own: the argument is in the
\* listener's locals, the step stores the result beside it.
InitCall(texts) ==
  InitExceptLocals /\ \E text \in texts : snap = [main |-> NoLocals, http |-> [text |-> text]]

Call(out) ==
  /\ "text" \in DOMAIN snap["http"] /\ "out" \notin DOMAIN snap["http"]
  /\ snap' = [snap EXCEPT !["http"] = [text |-> @.text, out |-> out]]
  /\ UNCHANGED <<state, locks, g_browser, ui_queue, cef, pc, work, conn, nreq,
                 ncallback, unlocked, accepts_after_stop>>

----------------------------------------------------------------------------
(* main(): start-up, the CEF message loop and its callbacks, shutdown      *)

\* main fills the fresh SharedState before any other thread exists.
MainInitFrom(addrs) ==
  /\ At("main", "init")
  /\ \E bind_addr \in addrs :
       Goto("main", "create",
            << Write("bind_addr", bind_addr), Write("current_url", start_url),
               Write("title", "ReduxOS CEF Host Bridge (OSR)"),
               Write("frame_width", view_width), Write("frame_height", view_height) >>)
  /\ UNCHANGED <<state, locks, g_browser, ui_queue, cef, snap, conn, nreq, ncallback,
                 unlocked, accepts_after_stop>>

MainInit == MainInitFrom(BindAddrs)

\* CefBrowserHost::CreateBrowser: on failure main returns 2.
MainCreateBrowser ==
  /\ At("main", "create")
  /\ \E created \in BOOLEAN :
       IF created
         THEN /\ Goto("main", "spawn", <<>>)
              /\ cef' = [cef EXCEPT !.browser = "creating"]
         ELSE /\ Goto("main", "done", <<>>)
              /\ UNCHANGED cef
  /\ UNCHANGED <<state, locks, g_browser, ui_queue, snap, conn, nreq, ncallback,
                 unlocked, accepts_after_stop>>

\* std::thread http_thread([state]() { ServeHttp(state); }); CefRunMessageLoop();
MainStartHttpThread ==
  /\ At("main", "spawn")
  /\ pc' = [pc EXCEPT !["main"] = "loop", !["http"] = "start"]
  /\ UNCHANGED <<state, locks, g_browser, ui_queue, cef, work, snap, conn, nreq,
                 ncallback, unlocked, accepts_after_stop>>

InLoop == At("main", "loop")

\* A loop that runs the oldest task and forgets the newest.
TakeTaskLast(kind) ==
  /\ InLoop
  /\ ui_queue # <<>>
  /\ Head(ui_queue).kind = kind
  /\ ui_queue' = SubSeq(ui_queue, 1, Len(ui_queue) - 1)

\* The loop takes the next posted task and runs its Execute().
TakeTask(kind) ==
  /\ InLoop
  /\ ui_queue # <<>>
  /\ Head(ui_queue).kind = kind
  /\ ui_queue' = Tail(ui_queue)

OpenUrlTask_Execute ==
  /\ TakeTask("OpenUrlTask")
  /\ snap' = [snap EXCEPT !["main"] = [task |-> Head(ui_queue)]]
  /\ Goto("main", "open_exec", GetGlobalBrowser)
  /\ UNCHANGED <<state, locks, g_browser, cef, conn, nreq, ncallback, unlocked,
                 accepts_after_stop>>

\* An Execute() that records the url although it could not load it.
OpenUrlTask_LoadAnyway(frames) ==
  /\ At("main", "open_exec")
  /\ \E main_frame \in frames :
       Goto("main", "loop",
            IF ~snap["main"].browser \/ ~main_frame
              THEN SetError("open failed: browser not ready")
                     \o SetCurrentUrl(snap["main"].task.url)
              ELSE << Engine(<<"LoadURL", snap["main"].task.url>>) >>
                     \o SetCurrentUrl(snap["main"].task.url))
  /\ snap' = [snap EXCEPT !["main"] = NoLocals]
  /\ UNCHANGED <<state, locks, g_browser, ui_queue, cef, conn, nreq, ncallback,
                 unlocked, accepts_after_stop>>

\* browser->GetMainFrame() of a browser that exists is the engine's answer,
\* one of `frames`.
OpenUrlTask_LoadIf(frames) ==
  /\ At("main", "open_exec")
  /\ \E main_frame \in frames :
       Goto("main", "loop",
            IF ~snap["main"].browser \/ ~main_frame
              THEN SetError("open failed: browser not ready")
              ELSE << Engine(<<"LoadURL", snap["main"].task.url>>) >>
                     \o SetCurrentUrl(snap["main"].task.url))
  /\ snap' = [snap EXCEPT !["main"] = NoLocals]
  /\ UNCHANGED <<state, locks, g_browser, ui_queue, cef, conn, nreq, ncallback,
                 unlocked, accepts_after_stop>>

EvalTask_Execute ==
  /\ TakeTask("EvalTask")
  /\ snap' = [snap EXCEPT !["main"] = [task |-> Head(ui_queue)]]
  /\ Goto("main", "eval_exec", GetGlobalBrowser)
  /\ UNCHANGED <<state, locks, g_browser, cef, conn, nreq, ncallback, unlocked,
                 accepts_after_stop>>

EvalTask_RunIf(frames) ==
  /\ At("main", "eval_exec")
  /\ \E main_frame \in frames :
       Goto("main", "loop",
            IF ~snap["main"].browser \/ ~main_frame
              THEN SetError("eval failed: browser not ready")
              ELSE << Engine(<<"ExecuteJavaScript", snap["main"].task.js>>) >>)
  /\ snap' = [snap EXCEPT !["main"] = NoLocals]
  /\ UNCHANGED <<state, locks, g_browser, ui_queue, cef, conn, nreq, ncallback,
                 unlocked, accepts_after_stop>>

NativeInputTask_Execute ==
  /\ TakeTask("NativeInputTask")
  /\ snap' = [snap EXCEPT !["main"] = [task |-> Head(ui_queue)]]
  /\ Goto("main", "input_exec", GetGlobalBrowser)
  /\ UNCHANGED <<state, locks, g_browser, cef, conn, nreq, ncallback, unlocked,
                 accepts_after_stop>>

\* browser->GetHost() of a browser that exists is one of `hosts`.
NativeInputTask_SendIf(hosts) ==
  /\ At("main", "input_exec")
  /\ LET task == snap["main"].task
         ev == <<task.x, task.y>>
     IN \E host \in hosts :
          Goto("main", "loop",
            IF ~snap["main"].browser \/ ~host
              THEN SetError("input failed: browser not ready")
            ELSE IF task.input = "MouseClick"
              THEN << Engine(<<"SendMouseMoveEvent", ev>>),
                      Engine(<<"SendMouseClickEvent", ev, FALSE>>),
                      Engine(<<"SendMouseClickEvent", ev, TRUE>>) >>
              ELSE << Engine(<<"SendMouseMoveEvent", ev>>),
                      Engine(<<"SendMouseWheelEvent", ev, task.delta>>) >>)
  /\ snap' = [snap EXCEPT !["main"] = NoLocals]
  /\ UNCHANGED <<state, locks, g_browser, ui_queue, cef, conn, nreq, ncallback,
                 unlocked, accepts_after_stop>>

\* The engine of a live browser has its main frame and its host.
OpenUrlTask_Load == OpenUrlTask_LoadIf({TRUE})

EvalTask_Run == EvalTask_RunIf({TRUE})

NativeInputTask_Send == NativeInputTask_SendIf({TRUE})

QuitTask_Execute ==
  /\ TakeTask("QuitTask")
  /\ Goto("main", "loop", SetRunning(FALSE) \o << Engine(<<"CefQuitMessageLoop">>) >>)
  /\ UNCHANGED <<state, locks, g_browser, cef, snap, conn, nreq, ncallback, unlocked,
                 accepts_after_stop>>

\* A stored paint that does not take the lock.
OnPaintStoreUnlocked(width, height, buffer) ==
  << Write("frame_capture", TRUE),
     Write("frame_width", width),
     Write("frame_height", height),
     Inc("frame_seq"),
     Write("frame_bgra", buffer) >>

\* A stored paint that copies one byte too few.
OnPaintStoreShort(width, height, buffer) ==
  << Lock("mu"),
     Write("frame_capture", TRUE),
     Write("frame_width", width),
     Write("frame_height", height),
     Inc("frame_seq"),
     Write("frame_bgra", SubSeq(buffer, 1, Len(buffer) - 1)),
     Unlock("mu") >>

\* A stored paint that counts the frame after it has released the lock.
OnPaintStoreSeqLate(width, height, buffer) ==
  << Lock("mu"),
     Write("frame_capture", TRUE),
     Write("frame_width", width),
     Write("frame_height", height),
     Write("frame_bgra", buffer),
     Unlock("mu"),
     Inc("frame_seq") >>

\* The steps of a stored paint: the five assignments under one lock_guard.
OnPaintStore(width, height, buffer) ==
  << Lock("mu"),
     Write("frame_capture", TRUE),
     Write("frame_width", width),
     Write("frame_height", height),
     Inc("frame_seq"),
     Write("frame_bgra", buffer),
     Unlock("mu") >>

\* ReduxBrowserClient::OnPaint: a popup paint, a null buffer or an empty
\* rectangle returns at once.
OnPaintUpTo(limit) ==
  /\ InLoop
  /\ cef.browser = "live"
  /\ \E type \in {"PET_VIEW", "PET_POPUP"}, size \in PaintSizes \cup {<<0, 1>>} :
       IF type # "PET_VIEW" \/ size[1] <= 0 \/ size[2] <= 0
         THEN UNCHANGED <<pc, work, ncallback>>
         ELSE /\ ncallback < limit
              /\ ncallback' = ncallback + 1
              /\ Goto("main", "loop",
                      OnPaintStore(size[1], size[2], PaintBuffer(size[1], size[2])))
  /\ UNCHANGED <<state, locks, g_browser, ui_queue, cef, snap, conn, nreq,
                 unlocked, accepts_after_stop>>

OnPaint == OnPaintUpTo(MaxCallbacks)

\* The same early return of OnPaint, counted among the callbacks delivered.
OnPaintIgnored(limit) ==
  /\ InLoop
  /\ cef.browser = "live"
  /\ \E type \in {"PET_VIEW", "PET_POPUP"}, size \in PaintSizes \cup {<<0, 1>>} :
       type # "PET_VIEW" \/ size[1] <= 0 \/ size[2] <= 0
  /\ ncallback < limit
  /\ ncallback' = ncallback + 1
  /\ UNCHANGED <<state, locks, g_browser, ui_queue, cef, pc, work, snap, conn, nreq,
                 unlocked, accepts_after_stop>>

OnTitleChange ==
  /\ InLoop
  /\ cef.browser = "live"
  /\ \E title \in Titles :
       Goto("main", "loop", << Engine(<<"SetWindowTitle", title>>) >> \o SetTitle(title))
  /\ ncallback < MaxCallbacks
  /\ ncallback' = ncallback + 1
  /\ UNCHANGED <<state, locks, g_browser, ui_queue, cef, snap, conn, nreq,
                 unlocked, accepts_after_stop>>

OnAfterCreated ==
  /\ InLoop
  /\ cef.browser = "creating"
  /\ cef' = [cef EXCEPT !.browser = "live"]
  /\ Goto("main", "loop", SetGlobalBrowser(TRUE) \o << Engine(<<"WasResized">>) >>)
  /\ UNCHANGED <<state, locks, g_browser, ui_queue, snap, conn, nreq, ncallback,
                 unlocked, accepts_after_stop>>

OnBeforeClose ==
  /\ InLoop
  /\ cef.browser = "live"
  /\ cef' = [cef EXCEPT !.browser = "closed"]
  /\ Goto("main", "loop",
          SetGlobalBrowser(FALSE) \o SetRunning(FALSE)
            \o << Engine(<<"CefQuitMessageLoop">>) >>)
  /\ UNCHANGED <<state, locks, g_browser, ui_queue, snap, conn, nreq, ncallback,
                 unlocked, accepts_after_stop>>

\* An end of the loop that sets the flag again.
MainLoopReturnsRestart ==
  /\ InLoop
  /\ cef.quit_loop
  /\ Goto("main", "join", SetRunning(TRUE))
  /\ UNCHANGED <<state, locks, g_browser, ui_queue, cef, snap, conn, nreq, ncallback,
                 unlocked, accepts_after_stop>>

\* CefRunMessageLoop() returns once CefQuitMessageLoop() was called; then
\* SetRunning(state, false).
MainLoopReturns ==
  /\ InLoop
  /\ cef.quit_loop
  /\ Goto("main", "join", SetRunning(FALSE))
  /\ UNCHANGED <<state, locks, g_browser, ui_queue, cef, snap, conn, nreq, ncallback,
                 unlocked, accepts_after_stop>>

\* http_thread.join(); CefShutdown(); return 0.
MainJoin ==
  /\ At("main", "join")
  /\ pc["http"] = "exit" /\ ~Busy("http")
  /\ Goto("main", "done", <<>>)
  /\ UNCHANGED <<state, locks, g_browser, ui_queue, cef, snap, conn, nreq, ncallback,
                 unlocked, accepts_after_stop>>

\* Start-up, the end of the loop, and the steps of whatever main is doing.
MainThread ==
  \/ MainInit
  \/ MainCreateBrowser
  \/ MainStartHttpThread
  \/ OnAfterCreated
  \/ MainLoopReturns
  \/ MainJoin
  \/ Step("main")

OpenUrlTasks == OpenUrlTask_Execute \/ OpenUrlTask_Load

Tasks ==
  \/ OpenUrlTasks
  \/ EvalTask_Execute
  \/ EvalTask_Run
  \/ NativeInputTask_Execute
  \/ NativeInputTask_Send
  \/ QuitTask_Execute

Main ==
  \/ MainThread
  \/ Tasks
  \/ OnPaint
  \/ OnTitleChange
  \/ OnBeforeClose

----------------------------------------------------------------------------
(* ServeHttp, run by http_thread                                           *)

\* inet_pton(AF_INET, host): four decimal numbers 0..255 joined by dots.
RECURSIVE SplitOn(_, _, _)
SplitOn(text, c, cur) ==
  IF text = <<>> THEN <<cur>>
  ELSE IF Head(text) = c THEN <<cur>> \o SplitOn(Tail(text), c, <<>>)
  ELSE SplitOn(Tail(text), c, Append(cur, Head(text)))

InetPton(host) ==
  LET parts == SplitOn(host, ".", <<>>)
  IN /\ Len(parts) = 4
     /\ \A i \in 1..4 :
          /\ Len(parts[i]) \in 1..3
          /\ \A j \in 1..Len(parts[i]) : IsDigit(parts[i][j])
          /\ Strtol10(parts[i]).value <= 255

\* A lookup that asks the form before the query string.
GetParamFormFirst(req, key) ==
  IF key \in DOMAIN req.form THEN req.form[key]
  ELSE IF key \in DOMAIN req.query THEN req.query[key]
  ELSE <<>>

GetParam(req, key) ==
  IF key \in DOMAIN req.query THEN req.query[key]
  ELSE IF key \in DOMAIN req.form THEN req.form[key]
  ELSE <<>>

Word(s) ==
  CASE s = "click" -> <<"c", "l", "i", "c", "k">>
    [] s = "scroll" -> <<"s", "c", "r", "o", "l", "l">>
    [] s = "text" -> <<"t", "e", "x", "t">>
    [] s = "key" -> <<"k", "e", "y">>
    [] s = "back" -> <<"b", "a", "c", "k">>
    [] s = "forward" -> <<"f", "o", "r", "w", "a", "r", "d">>
    [] s = "reload" -> <<"r", "e", "l", "o", "a", "d">>
    [] s = "localhost" -> <<"l", "o", "c", "a", "l", "h", "o", "s", "t">>
    [] s = "Enter" -> <<"E", "n", "t", "e", "r">>
    [] s = "127.0.0.1" -> <<"1", "2", "7", ".", "0", ".", "0", ".", "1">>
    [] s = "get" -> <<"g", "e", "t">>
    [] s = "post" -> <<"p", "o", "s", "t">>
    [] s = "/status" -> <<"/", "s", "t", "a", "t", "u", "s">>
    [] s = "/open" -> <<"/", "o", "p", "e", "n">>
    [] s = "/eval" -> <<"/", "e", "v", "a", "l">>
    [] s = "/input" -> <<"/", "i", "n", "p", "u", "t">>
    [] s = "/frame" -> <<"/", "f", "r", "a", "m", "e">>
    [] s = "/quit" -> <<"/", "q", "u", "i", "t">>
    [] s = "url" -> <<"u", "r", "l">>
    [] s = "js" -> <<"j", "s">>
    [] s = "type" -> <<"t", "y", "p", "e">>
    [] s = "x" -> <<"x">>
    [] s = "y" -> <<"y">>
    [] s = "delta" -> <<"d", "e", "l", "t", "a">>
    [] s = "content-length" ->
         <<"c", "o", "n", "t", "e", "n", "t", "-", "l", "e", "n", "g", "t", "h">>
    [] s = "content-type" ->
         <<"c", "o", "n", "t", "e", "n", "t", "-", "t", "y", "p", "e">>
    [] s = "application/x-www-form-urlencoded" ->
         << "a", "p", "p", "l", "i", "c", "a", "t", "i", "o", "n", "/", "x", "-",
            "w", "w", "w", "-", "f", "o", "r", "m", "-", "u", "r", "l", "e", "n",
            "c", "o", "d", "e", "d" >>
    [] s = "\r\n\r\n" -> <<"\r", "\n", "\r", "\n">>

\* The names a request's method, path and parameters are compared with.
Names ==
  { "get", "post", "/status", "/open", "/eval", "/input", "/frame", "/quit",
    "url", "js", "type", "x", "y", "delta", "text", "key" }

\* The name that a text spells; "?" for a text that spells none of them.
Name(text) ==
  IF \E n \in Names : Word(n) = text
    THEN CHOOSE n \in Names : Word(n) = text
    ELSE "?"

\* A std::map with texts as keys, by the names the keys spell.
Named(map) ==
  [ n \in { Name(k) : k \in DOMAIN map } |->
      map[CHOOSE k \in DOMAIN map : Name(k) = n] ]

\* std::string::find(pat, i): the first position at or after i where pat
\* starts, 0 for npos.
RECURSIVE FindStr(_, _, _)
FindStr(text, pat, i) ==
  IF i + Len(pat) - 1 > Len(text) THEN 0
  ELSE IF SubSeq(text, i, i + Len(pat) - 1) = pat THEN i
  ELSE FindStr(text, pat, i + 1)

\* std::getline until it fails, each line without its trailing '\r'.
RECURSIVE GetLines(_)
GetLines(text) ==
  IF text = <<>> THEN <<>>
  ELSE LET nl == FindChar(text, "\n", 1)
           line == IF nl = 0 THEN text ELSE SubSeq(text, 1, nl - 1)
           rest == IF nl = 0 THEN <<>> ELSE SubSeq(text, nl + 1, Len(text))
       IN << IF line # <<>> /\ line[Len(line)] = "\r"
               THEN SubSeq(line, 1, Len(line) - 1) ELSE line >> \o GetLines(rest)

\* operator>> on a stream: the tokens between white space.
RECURSIVE SkipToken(_, _)
SkipToken(text, i) ==
  IF i <= Len(text) /\ ~IsSpace(text[i]) THEN SkipToken(text, i + 1) ELSE i

RECURSIVE Tokens(_, _)
Tokens(text, i) ==
  LET b == SkipSpace(text, i)
      e == SkipToken(text, b)
  IN IF b > Len(text) THEN <<>> ELSE <<SubSeq(text, b, e - 1)>> \o Tokens(text, e)

\* The header lines as a map: key lowered, value without leading white
\* space, a later line with the same key replacing an earlier one.
RECURSIVE Headers(_, _, _)
Headers(lines, i, out) ==
  IF i > Len(lines) THEN out
  ELSE LET line == lines[i]
           colon == FindChar(line, ":", 1)
           value == SubSeq(line, colon + 1, Len(line))
       IN IF colon = 0 THEN Headers(lines, i + 1, out)
          ELSE Headers(lines, i + 1,
                       MapAssign(out, ToLowerAscii(SubSeq(line, 1, colon - 1)),
                                 SubSeq(value, SkipSpace(value, 1), Len(value))))

\* ReadHttpRequest: the content_length of a head, from its first line whose
\* key is content-length (0 without one).
RECURSIVE ContentLength(_, _)
ContentLength(lines, i) ==
  IF i > Len(lines) THEN 0
  ELSE LET line == lines[i]
           colon == FindChar(line, ":", 1)
       IN IF colon # 0 /\ ToLowerAscii(SubSeq(line, 1, colon - 1)) = Word("content-length")
            THEN Strtol10(SubSeq(line, colon + 1, Len(line))).value
            ELSE ContentLength(lines, i + 1)

\* ReadHttpRequest stops reading: the head is there and so are the
\* content_length bytes after it.
ReadComplete(raw) ==
  LET header_end == FindStr(raw, Word("\r\n\r\n"), 1)
  IN /\ header_end # 0
     /\ Len(raw) >= (header_end - 1) + 4
                      + ContentLength(GetLines(SubSeq(raw, 1, header_end - 1)), 1)

\* ReadHttpRequest: what raw can be when the peer sends the bytes of wire
\* and then closes; recv hands them over in pieces of any size, and the loop
\* ends after the first piece that completes the request or at the close.
ReadHttpRequest(wire) ==
  { raw \in { SubSeq(wire, 1, n) : n \in 0..Len(wire) } :
      raw = wire \/ ReadComplete(raw) }

\* A request line of which only the method and the target are required.
ReadsMethodAndTarget(tokens) == Len(tokens) >= 2

\* req_line >> method >> target >> version succeeds.
ReadsRequestLine(tokens) == Len(tokens) >= 3

\* ParseHttpRequest: [ok, req].
ParseHttpRequest(raw) ==
  LET header_end == FindStr(raw, Word("\r\n\r\n"), 1)
      lines == GetLines(SubSeq(raw, 1, header_end - 1))
      body == SubSeq(raw, header_end + 4, Len(raw))
      tokens == IF lines = <<>> THEN <<>> ELSE Tokens(lines[1], 1)
      target == tokens[2]
      q == FindChar(target, "?", 1)
      headers == Headers(lines, 2, [k \in {} |-> <<>>])
      urlencoded ==
        /\ Word("content-type") \in DOMAIN headers
        /\ FindStr(ToLowerAscii(headers[Word("content-type")]),
                   Word("application/x-www-form-urlencoded"), 1) # 0
  IN IF header_end = 0 \/ ~ReadsRequestLine(tokens)
       THEN [ok |-> FALSE, req |-> [method |-> "", path |-> "", query |-> <<>>, form |-> <<>>]]
       ELSE [ok |-> TRUE,
             req |-> [ method |-> Name(ToLowerAscii(tokens[1])),
                       path |-> Name(IF q = 0 THEN target ELSE SubSeq(target, 1, q - 1)),
                       query |-> IF q = 0 THEN [k \in {} |-> <<>>]
                                 ELSE Named(ParseUrlEncoded(SubSeq(target, q + 1, Len(target)))),
                       form |-> IF urlencoded THEN Named(ParseUrlEncoded(body))
                                ELSE [k \in {} |-> <<>>] ]]

\* BuildInputScript: the script for text, key, back, forward and reload; the
\* empty string for any other type.
BuildInputScript(req) ==
  LET type == ToLowerAscii(GetParam(req, "type"))
  IN IF type = Word("text")
       THEN <<"(()=>{const t='">> \o JsSingleQuoteEscape(GetParam(req, "text"))
              \o <<"';const el=document.activeElement;...})();">>
     ELSE IF type = Word("key")
       THEN LET key == IF GetParam(req, "key") = <<>> THEN Word("Enter")
                       ELSE GetParam(req, "key")
            IN <<"(()=>{const k='">> \o JsSingleQuoteEscape(key)
                 \o <<"';document.dispatchEvent(...);})();">>
     ELSE IF type = Word("back") THEN <<"(()=>{history.back();})();">>
     ELSE IF type = Word("forward") THEN <<"(()=>{history.forward();})();">>
     ELSE IF type = Word("reload") THEN <<"(()=>{location.reload();})();">>
     ELSE <<>>

OpenUrlTask(url) == [kind |-> "OpenUrlTask", url |-> url]
EvalTask(js) == [kind |-> "EvalTask", js |-> js]
NativeInputTask(input, x, y, delta) ==
  [kind |-> "NativeInputTask", input |-> input, x |-> x, y |-> y, delta |-> delta]
QuitTask == [kind |-> "QuitTask"]

\* A post that reports success and queues nothing.
CefPostTaskLost(task, ok) == UNCHANGED <<ui_queue, conn>>

\* CefPostTask(TID_UI, task): the task joins the queue, or the post is rejected.
CefPostTask(task, ok) ==
  IF ok
    THEN /\ ui_queue' = Append(ui_queue, task)
         /\ conn' = [conn EXCEPT !.posted = Append(@, task)]
    ELSE /\ conn' = [conn EXCEPT !.rejected = @ + 1]
         /\ UNCHANGED ui_queue

Error(text) == [ok |-> FALSE, error |-> text]
Queued(what) == [ok |-> TRUE, queued |-> what]
\* A reply that leaves the client socket open.
ReplyKeepOpen(status, body) == << Send(status, body) >>

Reply(status, body) == << Send(status, body), CloseSocket >>

\* A body that keeps the stored order of the three colour bytes.
PpmBgr(width, height, bgra) ==
  [ header |-> <<"P6", width, height, 255>>,
    pixels |-> [j \in 1..(width * height * 3) |->
                  bgra[4 * ((j - 1) \div 3) + ((j - 1) % 3) + 1]] ]

\* The body of /frame: "P6\n<w> <h>\n255\n", then R, G, B of every pixel.
Ppm(width, height, bgra) ==
  [ header |-> <<"P6", width, height, 255>>,
    pixels |-> [j \in 1..(width * height * 3) |->
                  bgra[4 * ((j - 1) \div 3) + (2 - ((j - 1) % 3)) + 1]] ]

req == conn.req
local == snap["http"]

HttpStart ==
  /\ At("http", "start")
  /\ Goto("http", "parse_bind", << Read("bind_addr") >>)
  /\ UNCHANGED <<state, locks, g_browser, ui_queue, cef, snap, conn, nreq, ncallback,
                 unlocked, accepts_after_stop>>

HttpParseBindAddr ==
  /\ At("http", "parse_bind")
  /\ IF ~ParseBindAddr(local.bind_addr).ok
       THEN Goto("http", "exit", SetError("invalid bind addr (expected host:port)"))
       ELSE Goto("http", "socket", <<>>)
  /\ UNCHANGED <<state, locks, g_browser, ui_queue, cef, snap, conn, nreq, ncallback,
                 unlocked, accepts_after_stop>>

HttpSocket ==
  /\ At("http", "socket")
  /\ \E ok \in BOOLEAN :
       IF ~ok THEN Goto("http", "exit", SetError("socket() failed"))
       ELSE LET host == ParseBindAddr(local.bind_addr).host
            IN IF ~InetPton(IF host = Word("localhost") THEN Word("127.0.0.1") ELSE host)
                 THEN Goto("http", "exit", SetError("invalid bind host (IPv4 required)"))
                 ELSE Goto("http", "bind", <<>>)
  /\ UNCHANGED <<state, locks, g_browser, ui_queue, cef, snap, conn, nreq, ncallback,
                 unlocked, accepts_after_stop>>

HttpBindListen ==
  /\ At("http", "bind")
  /\ \E r \in {"ok", "bind() failed", "listen() failed"} :
       IF r = "ok" THEN Goto("http", "loop", <<>>)
       ELSE Goto("http", "exit", SetError(r))
  /\ UNCHANGED <<state, locks, g_browser, ui_queue, cef, snap, conn, nreq, ncallback,
                 unlocked, accepts_after_stop>>

\* while (IsRunning(state))
\* The routes that post a command.
CommandRoutes == {"/open", "/eval", "/input", "/quit"}

\* What the clients have seen: the last answer of /status, unless a request
\* to a command route was handled after it.
Seen ==
  IF conn.id = 0 THEN conn.prev
  ELSE IF conn.req.path = "/status" /\ conn.status = 200 THEN << conn.body >>
  ELSE IF conn.req.path \in CommandRoutes THEN <<>>
  ELSE conn.prev

\* while (IsRunning(state)); `keep` has the model remember what the clients
\* have seen.
HttpLoopKeeping(keep) ==
  /\ At("http", "loop")
  /\ Goto("http", "loop_test", IsRunning)
  /\ snap' = [snap EXCEPT !["http"] = NoLocals]
  /\ conn' = [NoConnection EXCEPT !.prev = IF keep THEN Seen ELSE <<>>]
  /\ UNCHANGED <<state, locks, g_browser, ui_queue, cef, nreq, ncallback,
                 unlocked, accepts_after_stop>>

HttpLoop == HttpLoopKeeping(FALSE)

\* A loop that does not look at the flag it read.
HttpLoopTestAlways ==
  /\ At("http", "loop_test")
  /\ Goto("http", "select", <<>>)
  /\ UNCHANGED <<state, locks, g_browser, ui_queue, cef, snap, conn, nreq, ncallback,
                 unlocked, accepts_after_stop>>

HttpLoopTest ==
  /\ At("http", "loop_test")
  /\ IF local.running THEN Goto("http", "select", <<>>)
     ELSE Goto("http", "exit", <<>>)
  /\ UNCHANGED <<state, locks, g_browser, ui_queue, cef, snap, conn, nreq, ncallback,
                 unlocked, accepts_after_stop>>

\* select() with the 200 ms timeout: a connection is pending, or none is.
HttpSelectUpTo(limit) ==
  /\ At("http", "select")
  /\ \E ready \in BOOLEAN :
       IF ready THEN nreq < limit /\ Goto("http", "accept", <<>>)
       ELSE Goto("http", "loop", <<>>)
  /\ UNCHANGED <<state, locks, g_browser, ui_queue, cef, snap, conn, nreq, ncallback,
                 unlocked, accepts_after_stop>>

HttpAcceptFrom(clients) ==
  /\ At("http", "accept")
  /\ \E c \in clients, ok \in BOOLEAN :
       IF ok
         THEN /\ conn' = [ id |-> nreq + 1, open |-> TRUE, client |-> c.kind,
                           req |-> c.req, wire |-> c.wire, raw |-> <<>>,
                           prev |-> conn.prev,
                           status |-> 0, body |-> <<>>,
                           responses |-> 0, posted |-> <<>>, rejected |-> 0,
                           before |-> << state.open_requests, state.eval_requests,
                                         state.input_requests >> ]
              /\ nreq' = nreq + 1
              /\ accepts_after_stop' =
                   IF state.running THEN accepts_after_stop ELSE accepts_after_stop + 1
              /\ Goto("http", "recv", <<>>)
         ELSE /\ Goto("http", "loop", <<>>)
              /\ UNCHANGED <<conn, nreq, accepts_after_stop>>
  /\ UNCHANGED <<state, locks, g_browser, ui_queue, cef, snap, ncallback, unlocked>>

HttpSelect == HttpSelectUpTo(MaxRequests)

HttpAccept == HttpAcceptFrom(Clients)

\* ReadHttpRequest: recv() returns when the peer has sent or has closed.
HttpReadRequest ==
  /\ At("http", "recv")
  /\ conn.client # "stall"
  /\ \E raw \in ReadHttpRequest(conn.wire) :
       /\ conn' = [conn EXCEPT !.raw = raw]
       /\ IF conn.client = "empty" \/ (conn.client = "wire" /\ raw = <<>>)
            THEN Goto("http", "loop", Reply(400, Error("empty request")))
            ELSE Goto("http", "parse", <<>>)
  /\ UNCHANGED <<state, locks, g_browser, ui_queue, cef, snap, nreq, ncallback,
                 unlocked, accepts_after_stop>>

\* The silent peer of the open connection closes it.
ClientHangup ==
  /\ pc["http"] = "recv"
  /\ conn.client = "stall"
  /\ conn' = [conn EXCEPT !.client = "empty"]
  /\ UNCHANGED <<state, locks, g_browser, ui_queue, cef, pc, work, snap, nreq,
                 ncallback, unlocked, accepts_after_stop>>

HttpParseRequest ==
  /\ At("http", "parse")
  /\ IF conn.client = "garbage" \/ (conn.client = "wire" /\ ~ParseHttpRequest(conn.raw).ok)
       THEN /\ Goto("http", "loop", Reply(400, Error("parse failed")))
            /\ UNCHANGED conn
       ELSE /\ Goto("http", "route", <<>>)
            /\ conn' = IF conn.client = "wire"
                         THEN [conn EXCEPT !.req = ParseHttpRequest(conn.raw).req]
                         ELSE conn
  /\ UNCHANGED <<state, locks, g_browser, ui_queue, cef, snap, nreq, ncallback,
                 unlocked, accepts_after_stop>>

Route(path) == At("http", "route") /\ req.path = path

HttpStatus ==
  /\ Route("/status")
  /\ Goto("http", "status_send", BuildStatusJson)
  /\ UNCHANGED <<state, locks, g_browser, ui_queue, cef, snap, conn, nreq, ncallback,
                 unlocked, accepts_after_stop>>

HttpStatusSend ==
  /\ At("http", "status_send")
  /\ Goto("http", "loop", Reply(200, StatusJson(local)))
  /\ UNCHANGED <<state, locks, g_browser, ui_queue, cef, snap, conn, nreq, ncallback,
                 unlocked, accepts_after_stop>>

HttpOpen ==
  /\ Route("/open")
  /\ IF GetParam(req, "url") = <<>>
       THEN Goto("http", "loop", Reply(400, Error("missing url")))
       ELSE Goto("http", "open_post", << Lock("mu"), Inc("open_requests"), Unlock("mu") >>)
  /\ UNCHANGED <<state, locks, g_browser, ui_queue, cef, snap, conn, nreq, ncallback,
                 unlocked, accepts_after_stop>>

HttpOpenPost ==
  /\ At("http", "open_post")
  /\ LET url == GetParam(req, "url")
     IN \E ok \in BOOLEAN :
          /\ CefPostTask(OpenUrlTask(url), ok)
          /\ IF ~ok
               THEN Goto("http", "loop", SetError("open failed: CefPostTask error")
                                           \o Reply(500, Error("post task failed")))
               ELSE Goto("http", "loop",
                         Reply(200, [ok |-> TRUE, queued |-> "open", url |-> JsonEscape(url)]))
  /\ UNCHANGED <<state, locks, g_browser, cef, snap, nreq, ncallback, unlocked,
                 accepts_after_stop>>

HttpEval ==
  /\ Route("/eval")
  /\ IF GetParam(req, "js") = <<>>
       THEN Goto("http", "loop", Reply(400, Error("missing js")))
       ELSE Goto("http", "eval_post", << Lock("mu"), Inc("eval_requests"), Unlock("mu") >>)
  /\ UNCHANGED <<state, locks, g_browser, ui_queue, cef, snap, conn, nreq, ncallback,
                 unlocked, accepts_after_stop>>

HttpEvalPost ==
  /\ At("http", "eval_post")
  /\ \E ok \in BOOLEAN :
       /\ CefPostTask(EvalTask(GetParam(req, "js")), ok)
       /\ IF ~ok
            THEN Goto("http", "loop", SetError("eval failed: CefPostTask error")
                                        \o Reply(500, Error("post task failed")))
            ELSE Goto("http", "loop", Reply(200, Queued("eval")))
  /\ UNCHANGED <<state, locks, g_browser, cef, snap, nreq, ncallback, unlocked,
                 accepts_after_stop>>

input_type == ToLowerAscii(GetParam(req, "type"))

HttpInput ==
  /\ Route("/input")
  /\ IF input_type = <<>>
       THEN Goto("http", "loop", Reply(400, Error("input type invalid")))
       ELSE Goto("http", "input", << Lock("mu"), Inc("input_requests"), Unlock("mu") >>)
  /\ UNCHANGED <<state, locks, g_browser, ui_queue, cef, snap, conn, nreq, ncallback,
                 unlocked, accepts_after_stop>>

HttpInputClick ==
  /\ At("http", "input")
  /\ input_type = Word("click")
  /\ LET x == ParseIntDefault(GetParam(req, "x"), -1)
         y == ParseIntDefault(GetParam(req, "y"), -1)
     IN IF x < 0 \/ y < 0
          THEN /\ Goto("http", "loop", Reply(400, Error("click requires x and y")))
               /\ UNCHANGED <<ui_queue, conn>>
          ELSE \E ok \in BOOLEAN :
                 /\ CefPostTask(NativeInputTask("MouseClick", x, y, 0), ok)
                 /\ IF ~ok
                      THEN Goto("http", "loop",
                                SetError("input click failed: CefPostTask error")
                                  \o Reply(500, Error("post task failed")))
                      ELSE Goto("http", "loop", Reply(200, Queued("click")))
  /\ UNCHANGED <<state, locks, g_browser, cef, snap, nreq, ncallback, unlocked,
                 accepts_after_stop>>

\* The lock_guard block that reads frame_width / frame_height for a missing
\* or negative x / y.
HttpInputScroll ==
  /\ At("http", "input")
  /\ input_type = Word("scroll")
  /\ LET x == ParseIntDefault(GetParam(req, "x"), -1)
         y == ParseIntDefault(GetParam(req, "y"), -1)
     IN Goto("http", "scroll_post",
             << Lock("mu") >>
               \o (IF x < 0 THEN << Read("frame_width") >> ELSE <<>>)
               \o (IF y < 0 THEN << Read("frame_height") >> ELSE <<>>)
               \o << Unlock("mu") >>)
  /\ UNCHANGED <<state, locks, g_browser, ui_queue, cef, snap, conn, nreq, ncallback,
                 unlocked, accepts_after_stop>>

\* A scroll that takes the middle of the configured view, whatever was painted.
HttpInputScrollPostFixed ==
  /\ At("http", "scroll_post")
  /\ LET x0 == ParseIntDefault(GetParam(req, "x"), -1)
         y0 == ParseIntDefault(GetParam(req, "y"), -1)
         delta == ParseIntDefault(GetParam(req, "delta"), 120)
         x == IF x0 < 0 THEN view_width \div 2 ELSE x0
         y == IF y0 < 0 THEN view_height \div 2 ELSE y0
     IN \E ok \in BOOLEAN :
          /\ CefPostTask(NativeInputTask("MouseScroll", x, y, delta), ok)
          /\ IF ~ok
               THEN Goto("http", "loop",
                         SetError("input scroll failed: CefPostTask error")
                           \o Reply(500, Error("post task failed")))
               ELSE Goto("http", "loop", Reply(200, Queued("scroll")))
  /\ UNCHANGED <<state, locks, g_browser, cef, snap, nreq, ncallback, unlocked,
                 accepts_after_stop>>

HttpInputScrollPost ==
  /\ At("http", "scroll_post")
  /\ LET x0 == ParseIntDefault(GetParam(req, "x"), -1)
         y0 == ParseIntDefault(GetParam(req, "y"), -1)
         delta == ParseIntDefault(GetParam(req, "delta"), 120)
         x == IF x0 < 0 THEN local.frame_width \div 2 ELSE x0
         y == IF y0 < 0 THEN local.frame_height \div 2 ELSE y0
     IN \E ok \in BOOLEAN :
          /\ CefPostTask(NativeInputTask("MouseScroll", x, y, delta), ok)
          /\ IF ~ok
               THEN Goto("http", "loop",
                         SetError("input scroll failed: CefPostTask error")
                           \o Reply(500, Error("post task failed")))
               ELSE Goto("http", "loop", Reply(200, Queued("scroll")))
  /\ UNCHANGED <<state, locks, g_browser, cef, snap, nreq, ncallback, unlocked,
                 accepts_after_stop>>

HttpInputScript ==
  /\ At("http", "input")
  /\ input_type \notin {Word("click"), Word("scroll")}
  /\ LET js == BuildInputScript(req)
     IN IF js = <<>>
          THEN /\ Goto("http", "loop", Reply(400, Error("input type invalid")))
               /\ UNCHANGED <<ui_queue, conn>>
          ELSE \E ok \in BOOLEAN :
                 /\ CefPostTask(EvalTask(js), ok)
                 /\ IF ~ok
                      THEN Goto("http", "loop",
                                SetError("input failed: CefPostTask error")
                                  \o Reply(500, Error("post task failed")))
                      ELSE Goto("http", "loop", Reply(200, Queued("input")))
  /\ UNCHANGED <<state, locks, g_browser, cef, snap, nreq, ncallback, unlocked,
                 accepts_after_stop>>

\* The lock_guard block that copies width, height and the pixels.
FrameCopy ==
  << Lock("mu"), Read("frame_width"), Read("frame_height"), Read("frame_bgra"),
     Unlock("mu") >>

HttpFrame ==
  /\ Route("/frame")
  /\ Goto("http", "frame_encode", FrameCopy)
  /\ UNCHANGED <<state, locks, g_browser, ui_queue, cef, snap, conn, nreq, ncallback,
                 unlocked, accepts_after_stop>>

\* A readiness check that also turns away a buffer of exactly the frame's size.
HttpFrameEncodeStrict ==
  /\ At("http", "frame_encode")
  /\ LET width == local.frame_width
         height == local.frame_height
         bgra == local.frame_bgra
         expected == width * height * 4
     IN IF width = 0 \/ height = 0 \/ Len(bgra) <= expected
          THEN Goto("http", "loop", Reply(503, Error("no frame yet (wait for OnPaint)")))
          ELSE Goto("http", "loop", Reply(200, Ppm(width, height, bgra)))
  /\ UNCHANGED <<state, locks, g_browser, ui_queue, cef, snap, conn, nreq, ncallback,
                 unlocked, accepts_after_stop>>

HttpFrameEncode ==
  /\ At("http", "frame_encode")
  /\ LET width == local.frame_width
         height == local.frame_height
         bgra == local.frame_bgra
         expected == width * height * 4
     IN IF width = 0 \/ height = 0 \/ Len(bgra) < expected
          THEN Goto("http", "loop", Reply(503, Error("no frame yet (wait for OnPaint)")))
          ELSE Goto("http", "loop", Reply(200, Ppm(width, height, bgra)))
  /\ UNCHANGED <<state, locks, g_browser, ui_queue, cef, snap, conn, nreq, ncallback,
                 unlocked, accepts_after_stop>>

\* /quit: the result of CefPostTask is not looked at.
HttpQuit ==
  /\ Route("/quit")
  /\ \E ok \in BOOLEAN : CefPostTask(QuitTask, ok)
  /\ Goto("http", "loop", Reply(200, Queued("quit")))
  /\ UNCHANGED <<state, locks, g_browser, cef, snap, nreq, ncallback, unlocked,
                 accepts_after_stop>>

Routes == {"/status", "/open", "/eval", "/input", "/frame", "/quit"}

HttpNotFound ==
  /\ At("http", "route")
  /\ req.path \notin Routes
  /\ Goto("http", "loop",
          Reply(404, "routes: /status /open?url= /eval?js= /input?type=... /frame /quit\n"))
  /\ UNCHANGED <<state, locks, g_browser, ui_queue, cef, snap, conn, nreq, ncallback,
                 unlocked, accepts_after_stop>>

\* ServeHttp up to the dispatch on req.path, and the steps of a handler.
Listener ==
  \/ HttpStart
  \/ HttpParseBindAddr
  \/ HttpSocket
  \/ HttpBindListen
  \/ HttpLoop
  \/ HttpLoopTest
  \/ HttpReadRequest
  \/ HttpParseRequest
  \/ Step("http")
  \/ ClientHangup

OpenRoute == HttpOpen \/ HttpOpenPost

RouteHandlers ==
  \/ HttpStatus
  \/ HttpStatusSend
  \/ OpenRoute
  \/ HttpEval
  \/ HttpEvalPost
  \/ HttpInput
  \/ HttpInputClick
  \/ HttpInputScroll
  \/ HttpInputScrollPost
  \/ HttpInputScript
  \/ HttpFrame
  \/ HttpFrameEncode
  \/ HttpQuit
  \/ HttpNotFound

ServeHttp == Listener \/ HttpSelect \/ HttpAccept \/ RouteHandlers

\* The bridge with its engine callbacks, serving one well-formed request per
\* route (and the peers that send none).
Next == Main \/ ServeHttp

Spec == Init /\ [][Next]_vars

\* The bridge serving every request of AllRequests, with an engine that
\* delivers no paint, title or close callback.
NextRoutes ==
  \/ MainThread
  \/ Tasks
  \/ Listener
  \/ HttpSelectUpTo(MaxRequests)
  \/ HttpAcceptFrom(AllClients)
  \/ RouteHandlers

SpecRoutes == Init /\ [][NextRoutes]_vars

\* Shutdown: /quit and /open requests and silent peers, one connection more
\* than in Spec, and the engine's close callback.
NextQuit ==
  \/ MainThread
  \/ OpenUrlTasks
  \/ QuitTask_Execute
  \/ OnBeforeClose
  \/ Listener
  \/ HttpSelectUpTo(MaxRequests + 1)
  \/ HttpAcceptFrom(QuitClients)
  \/ OpenRoute
  \/ HttpQuit

SpecQuit == Init /\ [][NextQuit]_vars

\* Commands: /open, /eval and /input click requests, one connection more than
\* in Spec, and an engine whose browser may lack its main frame or its host
\* and may close.
NextTasks ==
  \/ MainThread
  \/ OnBeforeClose
  \/ OpenUrlTask_Execute
  \/ OpenUrlTask_LoadIf(BOOLEAN)
  \/ EvalTask_Execute
  \/ EvalTask_RunIf(BOOLEAN)
  \/ NativeInputTask_Execute
  \/ NativeInputTask_SendIf(BOOLEAN)
  \/ Listener
  \/ HttpSelectUpTo(MaxRequests + 1)
  \/ HttpAcceptFrom(TaskClients)
  \/ OpenRoute
  \/ HttpEval
  \/ HttpEvalPost
  \/ HttpInput
  \/ HttpInputClick

SpecTasks == Init /\ [][NextTasks]_vars

\* Frames: /frame and /input scroll requests while the browser paints, one
\* connection and one paint callback more than in Spec, every paint callback
\* counted; the browser stays open.
NextFrame ==
  \/ MainInit
  \/ MainCreateBrowser
  \/ MainStartHttpThread
  \/ OnAfterCreated
  \/ Step("main")
  \/ OnPaintUpTo(MaxCallbacks + 1)
  \/ OnPaintIgnored(MaxCallbacks + 1)
  \/ NativeInputTask_Execute
  \/ NativeInputTask_Send
  \/ Listener
  \/ HttpSelectUpTo(MaxRequests + 1)
  \/ HttpAcceptFrom(FrameClients)
  \/ HttpInput
  \/ HttpInputScroll
  \/ HttpInputScrollPost
  \/ HttpFrame
  \/ HttpFrameEncode

SpecFrame == Init /\ [][NextFrame]_vars

\* Clicks: /input?type=click with well-formed and ill-formed coordinates.
NextClick ==
  \/ MainInit
  \/ MainCreateBrowser
  \/ MainStartHttpThread
  \/ OnAfterCreated
  \/ Step("main")
  \/ NativeInputTask_Execute
  \/ NativeInputTask_Send
  \/ Listener
  \/ HttpSelectUpTo(MaxRequests)
  \/ HttpAcceptFrom(ClickClients)
  \/ HttpInput
  \/ HttpInputClick

SpecClick == Init /\ [][NextClick]_vars

\* Start-up with every kind of --bind value, an engine that delivers its
\* callbacks, and peers that ask for /open.
NextBind ==
  \/ MainInitFrom(GoodBindAddrs \cup BadBindAddrs)
  \/ MainCreateBrowser
  \/ MainStartHttpThread
  \/ OnAfterCreated
  \/ OnTitleChange
  \/ Step("main")
  \/ OpenUrlTask_Execute
  \/ OpenUrlTask_Load
  \/ Listener
  \/ HttpSelectUpTo(MaxRequests)
  \/ HttpAcceptFrom(Sending({Request("/open", [url |-> <<"a">>])}) \cup Peer({"stall"}))
  \/ HttpOpen
  \/ HttpOpenPost

SpecBind == Init /\ [][NextBind]_vars

\* /status asked again and again, /open in between, and an engine that
\* reports a title.
StatusRequests ==
  { Request("/status", NoParams),
    Request("/open", [url |-> <<"a">>]) }

NextStatus ==
  \/ MainInit
  \/ MainCreateBrowser
  \/ MainStartHttpThread
  \/ OnAfterCreated
  \/ OnTitleChange
  \/ Step("main")
  \/ OpenUrlTask_Execute
  \/ OpenUrlTask_Load
  \/ HttpStart
  \/ HttpParseBindAddr
  \/ HttpSocket
  \/ HttpBindListen
  \/ HttpLoopKeeping(TRUE)
  \/ HttpLoopTest
  \/ HttpReadRequest
  \/ HttpParseRequest
  \/ Step("http")
  \/ ClientHangup
  \/ HttpSelectUpTo(MaxRequests + 1)
  \/ HttpAcceptFrom(Sending(StatusRequests) \cup Peer({"stall"}))
  \/ HttpStatus
  \/ HttpStatusSend
  \/ HttpOpen
  \/ HttpOpenPost

SpecStatus == Init /\ [][NextStatus]_vars

\* The routes that only read, asked while the engine paints, next to one
\* route that posts.
NextRead ==
  \/ MainInit
  \/ MainCreateBrowser
  \/ MainStartHttpThread
  \/ OnAfterCreated
  \/ OnPaint
  \/ Step("main")
  \/ NativeInputTask_Execute
  \/ NativeInputTask_Send
  \/ Listener
  \/ HttpSelectUpTo(MaxRequests)
  \/ HttpAcceptFrom(ReadClients)
  \/ HttpStatus
  \/ HttpStatusSend
  \/ HttpFrame
  \/ HttpFrameEncode
  \/ HttpInput
  \/ HttpInputScroll
  \/ HttpInputScrollPost
  \/ HttpNotFound

SpecRead == Init /\ [][NextRead]_vars

\* Requests as bytes: read from the socket, parsed, and dispatched to /status,
\* /open or no route.
NextWire ==
  \/ MainInit
  \/ MainCreateBrowser
  \/ MainStartHttpThread
  \/ OnAfterCreated
  \/ Step("main")
  \/ OpenUrlTask_Execute
  \/ OpenUrlTask_Load
  \/ Listener
  \/ HttpSelectUpTo(MaxRequests)
  \/ HttpAcceptFrom(WireClients)
  \/ HttpStatus
  \/ HttpStatusSend
  \/ HttpOpen
  \/ HttpOpenPost
  \/ HttpNotFound

SpecWire == Init /\ [][NextWire]_vars

\* /open and /eval with their parameter in the query string and in the form.
NextParams ==
  \/ MainInit
  \/ MainCreateBrowser
  \/ MainStartHttpThread
  \/ OnAfterCreated
  \/ Step("main")
  \/ OpenUrlTask_Execute
  \/ OpenUrlTask_Load
  \/ EvalTask_Execute
  \/ EvalTask_Run
  \/ Listener
  \/ HttpSelectUpTo(MaxRequests)
  \/ HttpAcceptFrom(ParamClients)
  \/ HttpOpen
  \/ HttpOpenPost
  \/ HttpEval
  \/ HttpEvalPost

SpecParams == Init /\ [][NextParams]_vars

-----------------------------------------------------------------------------
(* The VGA text driver (drivers/driver.cpp)                                *)

\* The driver's statics cursor_row, cursor_col and color, with the call last
\* made and the indices of VGA it wrote; they are kept in the control
\* thread's slot of snap.
driver == snap["main"]

\* The character '\b', which has no escape in a string here.
Backspace == "BS"

\* The arguments of cpp_putc and cpp_set_color.
PutChars == {"a", "\n", Backspace}
ColorArgs == {0, 11, 255}

InitDriver ==
  /\ InitExceptLocals
  /\ snap = [ main |-> [ cursor_row |-> 0, cursor_col |-> 0, color |-> 11,
                         call |-> <<"none">>, written |-> {} ],
              http |-> NoLocals ]

\* One call of the driver has run to its return.
Returns(call, d) ==
  /\ snap' = [snap EXCEPT !["main"] = [d EXCEPT !.call = call]]
  /\ UNCHANGED <<state, locks, g_browser, ui_queue, cef, pc, work, conn, nreq,
                 ncallback, unlocked, accepts_after_stop>>

\* The cells that scrolling writes: every row but the last from the row
\* below it, then the last row.
ScrollWrites ==
  { (y - 1) * VGA_COLS + x : y \in 1..(VGA_ROWS - 1), x \in 0..(VGA_COLS - 1) }
    \cup { (VGA_ROWS - 1) * VGA_COLS + x : x \in 0..(VGA_COLS - 1) }

\* A scroll that starts one row too late.
scroll_if_needed_late(d) ==
  IF d.cursor_row < VGA_ROWS + 1 THEN d
  ELSE [d EXCEPT !.written = @ \cup ScrollWrites, !.cursor_row = VGA_ROWS - 1]

scroll_if_needed(d) ==
  IF d.cursor_row < VGA_ROWS THEN d
  ELSE [d EXCEPT !.written = @ \cup ScrollWrites, !.cursor_row = VGA_ROWS - 1]

cpp_clear_screen ==
  Returns(<<"cpp_clear_screen">>,
          [driver EXCEPT !.written = 0..(VGA_COLS * VGA_ROWS - 1),
                         !.cursor_row = 0, !.cursor_col = 0])

\* color = (bg << 4) | (fg & 0x0F), cut to the eight bits of color.
cpp_set_color ==
  \E fg \in ColorArgs, bg \in ColorArgs :
    Returns(<<"cpp_set_color", fg, bg>>,
            [driver EXCEPT !.written = {}, !.color = ((bg * 16) + (fg % 16)) % 256])

\* cpp_putc: newline, backspace, or a cell written at the cursor; cursor_row
\* and cursor_col are uint8_t.
cpp_putc ==
  \E c \in PutChars :
    LET d == [driver EXCEPT !.written = {}]
        at == d.cursor_row * VGA_COLS + d.cursor_col
    IN Returns(<<"cpp_putc", c>>,
         IF c = "\n"
           THEN scroll_if_needed([d EXCEPT !.cursor_col = 0,
                                           !.cursor_row = (@ + 1) % 256])
         ELSE IF c = Backspace
           THEN IF d.cursor_col > 0
                  THEN [d EXCEPT !.cursor_col = @ - 1, !.written = {at - 1}]
                  ELSE d
         ELSE LET col == (d.cursor_col + 1) % 256
              IN scroll_if_needed(
                   IF col >= VGA_COLS
                     THEN [d EXCEPT !.written = {at}, !.cursor_col = 0,
                                    !.cursor_row = (@ + 1) % 256]
                     ELSE [d EXCEPT !.written = {at}, !.cursor_col = col]))

NextDriver == cpp_clear_screen \/ cpp_set_color \/ cpp_putc

SpecDriver == InitDriver /\ [][NextDriver]_vars

-----------------------------------------------------------------------------

\* UrlDecode applied to every text of DecodeTexts.
CallUrlDecode == Call(UrlDecode(snap["http"].text))
SpecDecode == InitCall(DecodeTexts) /\ [][CallUrlDecode]_vars

\* BuildInputScript applied to every request of ScriptRequests.
CallBuildInputScript == Call(BuildInputScript(snap["http"].text))
SpecScript == InitCall(ScriptRequests) /\ [][CallBuildInputScript]_vars

\* ParseUrlEncoded applied to every text of FormTexts.
CallParseUrlEncoded == Call(ParseUrlEncoded(snap["http"].text))
SpecForm == InitCall(FormTexts) /\ [][CallParseUrlEncoded]_vars

\* Each thread keeps running while it has a step to take; a peer owes nothing.
ThreadSteps(t) ==
  IF t = "main"
    THEN MainThread \/ OpenUrlTasks \/ QuitTask_Execute
    ELSE \/ HttpStart \/ HttpParseBindAddr \/ HttpSocket \/ HttpBindListen
         \/ HttpLoop \/ HttpLoopTest \/ HttpReadRequest \/ HttpParseRequest
         \/ Step("http") \/ HttpSelectUpTo(MaxRequests + 1)
         \/ HttpAcceptFrom(QuitClients) \/ OpenRoute \/ HttpQuit

FairQuit == SpecQuit /\ WF_vars(ThreadSteps("main")) /\ WF_vars(ThreadSteps("http"))

----------------------------------------------------------------------------
(* Properties                                                              *)

Counters == << state.open_requests, state.eval_requests, state.input_requests >>
CountedRoutes == << "/open", "/eval", "/input" >>

AllAccessesUnderLock == unlocked = {}

\* C2: the only accesses made without the state lock are main's initial
\* writes, made before the listener thread exists, and the listener's read of
\* bind_addr when it starts; bind_addr is not written once the listener
\* exists.  Every other read and write holds the lock.
AccessesUnderLockOnceShared ==
  /\ \A a \in unlocked :
       \/ a.thr = "main" /\ ~a.started /\ a.kind = "write"
       \/ a.thr = "http" /\ a.f = "bind_addr" /\ a.kind = "read"
  /\ Started =>
       \A t \in Threads : \A i \in 1..Len(work[t]) :
         ~(work[t][i].op = "write" /\ work[t][i].f = "bind_addr")

\* The listener read bind_addr without the lock, and later a paint callback
\* and a counted request updated the state under it.
UnlockedStartThenLockedUse ==
  /\ Access("http", "bind_addr", "read") \in unlocked
  /\ state.frame_capture
  /\ state.open_requests = 1

\* C3: no thread takes a lock while it holds one, the two threads never wait
\* for each other, and no lock is held by a thread that is between two
\* operations (where the listener selects, accepts, receives or posts a
\* command, and where the control thread returns to its loop) or that is
\* about to send or to close the socket.
LockDiscipline ==
  /\ \A t \in Threads :
       /\ Cardinality(Held(t)) <= 1
       /\ (Busy(t) /\ Next1(t).op = "lock") => Held(t) = {}
       /\ ~Busy(t) => Held(t) = {}
       /\ (Busy(t) /\ Next1(t).op \in {"send", "close", "engine"}) => Held(t) = {}
  /\ ~(\A t \in Threads :
         Busy(t) /\ Next1(t).op = "lock" /\ locks[Next1(t).m] \notin {"none", t})

\* The listener is about to send a response while the control thread holds
\* the state lock.
SendWhileControlThreadLocks ==
  /\ Busy("http") /\ Next1("http").op = "send"
  /\ locks["mu"] = "main"

\* C4 as stated: in every reachable state, frame_capture implies that the
\* stored buffer has at least frame_width * frame_height * 4 bytes.
FrameBufferCoversFrame ==
  state.frame_capture =>
    Len(state.frame_bgra) >= state.frame_width * state.frame_height * 4

\* C4: in every reachable state in which the control thread does not hold
\* the state lock (every state a thread holding the lock can see),
\* frame_capture implies that the stored buffer has at least
\* frame_width * frame_height * 4 bytes.
FrameBufferCoversFrameOutsideOnPaint ==
  locks["mu"] # "main" => FrameBufferCoversFrame

\* A paint of two pixels has been stored and the lock is free.
PaintStored ==
  /\ state.frame_capture /\ state.frame_width = 2
  /\ Len(state.frame_bgra) = 8
  /\ locks["mu"] = "none"

\* C5: the running flag starts true and no step takes it from false to true.
RunningOneWay == state.running /\ [][~state.running => ~state'.running]_vars

\* The flag was cleared by QuitTask and again at the end of the loop, and
\* both threads have finished.
StoppedAndJoined ==
  /\ ~state.running
  /\ cef.browser = "live"
  /\ pc["main"] = "done" /\ pc["http"] = "exit"

\* C6 as stated: once QuitTask has cleared the running flag, the listener
\* accepts no connection.
NoAcceptAfterQuit == cef.browser = "live" => accepts_after_stop = 0

\* C6: after the running flag has become false the listener accepts at most
\* one more connection, the one of the loop iteration that read the flag
\* before it was cleared.
AtMostOneAcceptAfterStop == accepts_after_stop <= 1

\* QuitTask has cleared the flag and the listener has accepted a connection
\* since.
AcceptedAfterQuit ==
  /\ ~state.running /\ cef.browser = "live"
  /\ accepts_after_stop = 1

\* C7 as stated: once the running flag is false and the engine loop was asked
\* to quit, the listener eventually exits and main joins it and terminates.
ShutdownLive ==
  (~state.running /\ cef.quit_loop) ~> (pc["http"] = "exit" /\ pc["main"] = "done")

\* C8: the three counters and frame_seq never decrease, and from its accept
\* to its response a request changes at most one counter, by at most 1.
CountersMonotone ==
  /\ [][/\ \A i \in 1..3 : Counters'[i] >= Counters[i]
        /\ state'.frame_seq >= state.frame_seq]_vars
  /\ [](conn.id # 0 =>
          /\ \A i \in 1..3 : Counters[i] - conn.before[i] \in {0, 1}
          /\ (Counters[1] - conn.before[1]) + (Counters[2] - conn.before[2])
               + (Counters[3] - conn.before[3]) <= 1)

\* A click was counted and answered 200 after a paint was stored.
CountedRequestAfterPaint ==
  /\ conn.status = 200 /\ req.path = "/input"
  /\ state.input_requests = 1
  /\ state.frame_seq = 1

\* C9 as stated: a request to /open, /eval or /input answered 400 leaves the
\* three counters as they were, and one answered 200 or 500 has incremented
\* its own counter by 1 and no other.
CountersFollowResponses ==
  \A i \in 1..3 :
    req.path = CountedRoutes[i] =>
      /\ conn.status = 400 => Counters = conn.before
      /\ conn.status \in {200, 500} =>
           Counters = [conn.before EXCEPT ![i] = @ + 1]

\* C10: a request to /open, /eval or /input answered 200 has posted exactly
\* one command: OpenUrlTask with the url for /open, EvalTask with the js for
\* /eval, NativeInputTask with the coordinates and delta for /input click and
\* scroll, EvalTask with the script built from the request for the other
\* input types; one answered 400 has posted none.
AcknowledgedMeansPosted ==
  LET x == ParseIntDefault(GetParam(req, "x"), -1)
      y == ParseIntDefault(GetParam(req, "y"), -1)
      delta == ParseIntDefault(GetParam(req, "delta"), 120)
      command ==
        IF req.path = "/open" THEN OpenUrlTask(GetParam(req, "url"))
        ELSE IF req.path = "/eval" THEN EvalTask(GetParam(req, "js"))
        ELSE IF input_type = Word("click") THEN NativeInputTask("MouseClick", x, y, 0)
        ELSE IF input_type = Word("scroll")
          THEN NativeInputTask("MouseScroll",
                               IF x < 0 THEN state.frame_width \div 2 ELSE x,
                               IF y < 0 THEN state.frame_height \div 2 ELSE y, delta)
        ELSE EvalTask(BuildInputScript(req))
  IN req.path \in {"/open", "/eval", "/input"} =>
       /\ conn.status = 200 => conn.posted = << command >>
       /\ conn.status = 400 => conn.posted = <<>>

\* /input?type=text was answered 200 and one EvalTask was posted for it.
TextInputAcknowledged ==
  /\ conn.status = 200 /\ req.path = "/input"
  /\ Len(conn.posted) = 1 /\ conn.posted[1].kind = "EvalTask"

\* C11 as stated: on /open, /eval, /input and /quit, a request whose post the
\* queue rejected is answered 500 with last_error set, and on /open, /eval
\* and /input its counter has been incremented.
RejectedPostAnswered500 ==
  (conn.rejected > 0 /\ conn.status # 0) =>
    /\ conn.status = 500
    /\ state.last_error # ""
    /\ \A i \in 1..3 :
         req.path = CountedRoutes[i] => Counters[i] = conn.before[i] + 1

\* C12 as stated: every error leaves a trace.  A request that could not be
\* read or parsed, or that lacks its url or js, is answered with a status
\* outside 200..299; a request whose post was rejected is answered with such
\* a status or has set last_error; a listener that gave up before its loop
\* has set last_error.
ErrorsAreReported ==
  /\ (conn.status # 0 /\ conn.client \in {"garbage", "empty"})
       => conn.status \notin 200..299
  /\ (conn.status # 0 /\ req.path = "/open" /\ GetParam(req, "url") = <<>>)
       => conn.status \notin 200..299
  /\ (conn.status # 0 /\ req.path = "/eval" /\ GetParam(req, "js") = <<>>)
       => conn.status \notin 200..299
  /\ (conn.status # 0 /\ conn.rejected > 0)
       => (conn.status \notin 200..299 \/ state.last_error # "")
  /\ (pc["http"] = "exit" /\ ~Busy("http") /\ "running" \notin DOMAIN local)
       => state.last_error # ""

\* What each task's Execute() passes to SetError when it has no session.
NoSessionText ==
  [open_exec |-> "open failed: browser not ready",
   eval_exec |-> "eval failed: browser not ready",
   input_exec |-> "input failed: browser not ready"]

\* The steps w call SetError.
WritesLastError(w) ==
  \E i \in 1..Len(w) : w[i].op = "write" /\ w[i].f = "last_error"

\* Thread t takes this step.
Taken(t) == pc'[t] # pc[t] \/ work'[t] # work[t]

\* C13: an OpenUrlTask, EvalTask or NativeInputTask that finds no browser
\* (or no main frame, or no host) only calls SetError with its own text: the
\* steps it takes call nothing in the engine, leave the queue and the browser
\* handle alone and change no field of the state but last_error; and a task
\* that found no browser takes exactly those steps.
NoSessionOnlySetsError ==
  [][/\ (Taken("main") /\ pc["main"] \in DOMAIN NoSessionText /\ ~Busy("main"))
          => /\ ~snap["main"].browser => WritesLastError(work'["main"])
             /\ WritesLastError(work'["main"])
                  => work'["main"] = SetError(NoSessionText[pc["main"]])
     /\ (Taken("main") /\ pc["main"] = "loop" /\ Busy("main")
           /\ \E p \in DOMAIN NoSessionText, k \in 1..3 :
                work["main"] = SubSeq(SetError(NoSessionText[p]), k, 3))
          => /\ cef' = cef /\ ui_queue' = ui_queue /\ g_browser' = g_browser
             /\ \A f \in DOMAIN state \ {"last_error"} : state'[f] = state[f]
             /\ \/ state'.last_error = state.last_error
                \/ \E p \in DOMAIN NoSessionText :
                     state'.last_error = NoSessionText[p]]_vars

\* An OpenUrlTask found no session: its error is recorded, the url is the
\* start url and the engine was told to load nothing.
OpenFailedForNoSession ==
  /\ state.last_error = "open failed: browser not ready"
  /\ At("main", "loop")
  /\ state.current_url = start_url /\ cef.loads = <<>>

\* The OpenUrlTasks accepted and not yet executed to their LoadURL.
PendingOpens ==
  Cardinality({i \in 1..Len(ui_queue) : ui_queue[i].kind = "OpenUrlTask"})
    + (IF pc["main"] = "open_exec" \/ \E i \in 1..Len(work["main"]) :
            work["main"][i].op = "engine" /\ work["main"][i].call[1] = "LoadURL"
         THEN 1 ELSE 0)

\* Every posted task has been executed and the control thread is idle.
Quiescent == ui_queue = <<>> /\ At("main", "loop")

OpenAnsweredWithEchoedUrl ==
  (req.path = "/open" /\ GetParam(req, "url") # <<>>
     /\ conn.posted # <<>> /\ conn.status # 0)
    => /\ conn.status = 200
       /\ Counters[1] = conn.before[1] + 1
       /\ \A i \in 2..3 : Counters[i] = conn.before[i]
       /\ conn.body.ok /\ conn.body.queued = "open"
       /\ JsonUnescape(conn.body.url) = [ok |-> TRUE, value |-> GetParam(req, "url")]

\* The listener has just copied the frame: it still holds the lock.
FrameCopied == pc["http"] = "frame_encode" /\ work["http"] = << Unlock("mu") >>

\* The answer to the connection's /frame request is out and its copy of the
\* frame is still in the handler's locals.
FrameAnswered ==
  req.path = "/frame" /\ conn.status # 0 /\ "frame_bgra" \in DOMAIN local

\* C16: /frame is answered 503 or 200; it is 503 exactly when, at the moment
\* the handler copied the frame under the lock, the capture flag was unset or
\* the stored buffer was shorter than width*height*4; and it is 503 as long
\* as no paint has been stored.
FrameReadiness ==
  /\ FrameCopied =>
       /\ local.frame_width = state.frame_width
       /\ local.frame_height = state.frame_height
       /\ local.frame_bgra = state.frame_bgra
       /\ (~state.frame_capture
             \/ Len(state.frame_bgra) < state.frame_width * state.frame_height * 4)
            <=> (Len(local.frame_bgra) < local.frame_width * local.frame_height * 4)
  /\ FrameAnswered =>
       /\ conn.status \in {200, 503}
       /\ conn.status = 503
            <=> (Len(local.frame_bgra) < local.frame_width * local.frame_height * 4)
  /\ (req.path = "/frame" /\ conn.status # 0 /\ state.frame_seq = 0)
       => conn.status = 503

\* /frame was answered 503 before the paint and 200 after it.
FrameRefusedThenServed ==
  /\ FrameAnswered /\ conn.status = 200 /\ conn.id = 2
  /\ state.frame_seq = 1

\* C17: a /frame answered 200 carries the header P6, w, h, 255 and exactly
\* w*h*3 bytes, pixel i being bytes 4i+2, 4i+1, 4i (red, green, blue) of the
\* copied buffer, the alpha byte 4i+3 left out; the copied buffer is the one
\* the state held at the copy, which is the buffer of a paint of w by h.
FrameIsPpmOfPaint ==
  /\ (FrameAnswered /\ conn.status = 200) =>
       LET w == local.frame_width
           h == local.frame_height
           buffer == local.frame_bgra
           out == conn.body.pixels
       IN /\ <<w, h>> \in PaintSizes /\ buffer = PaintBuffer(w, h)
          /\ conn.body.header = <<"P6", w, h, 255>>
          /\ Len(out) = w * h * 3
          /\ \A i \in 0..(w * h - 1) :
               /\ out[3 * i + 1] = buffer[4 * i + 2 + 1]
               /\ out[3 * i + 2] = buffer[4 * i + 1 + 1]
               /\ out[3 * i + 3] = buffer[4 * i + 1]
  /\ (FrameCopied /\ state.frame_seq >= 1) =>
       /\ <<local.frame_width, local.frame_height, local.frame_bgra>>
            = <<state.frame_width, state.frame_height, state.frame_bgra>>
       /\ state.frame_bgra = PaintBuffer(state.frame_width, state.frame_height)

\* After two paints /frame returned the 2 by 1 frame: bytes 33..40 stored,
\* red, green, blue of both pixels sent.
TwoPixelFrameServed ==
  /\ FrameAnswered /\ conn.status = 200
  /\ state.frame_seq = 2
  /\ conn.body = [header |-> <<"P6", 2, 1, 255>>, pixels |-> <<35, 34, 33, 39, 38, 37>>]

\* C18 as stated: every paint callback delivered has added exactly 1 to
\* frame_seq by the time the control thread is back in its loop.
EveryPaintCallbackCounts ==
  At("main", "loop") => state.frame_seq = ncallback

\* C18, corrected: frame_seq changes only by +1, in a step the control thread
\* takes inside OnPaint's critical section, between the assignment of the
\* height and that of the buffer; outside that critical section the flag, the
\* dimensions and the buffer are those of one stored paint if frame_seq >= 1
\* and untouched if it is 0; and frame_seq never exceeds the number of paint
\* callbacks delivered, those OnPaint returns from at once not being counted.
StoredPaintCountsOnce ==
  /\ [][state'.frame_seq # state.frame_seq =>
          /\ state'.frame_seq = state.frame_seq + 1
          /\ Taken("main") /\ locks.mu = "main" /\ locks'.mu = "main"
          /\ \E size \in PaintSizes :
               work["main"] = SubSeq(OnPaintStore(size[1], size[2],
                                                  PaintBuffer(size[1], size[2])), 5, 7)
          /\ state.frame_capture
          /\ \A f \in DOMAIN state \ {"frame_seq"} : state'[f] = state[f]]_vars
  /\ [](locks.mu # "main" =>
          IF state.frame_seq = 0
            THEN ~state.frame_capture /\ state.frame_bgra = <<>>
            ELSE /\ state.frame_capture
                 /\ <<state.frame_width, state.frame_height>> \in PaintSizes
                 /\ state.frame_bgra = PaintBuffer(state.frame_width, state.frame_height))
  /\ [](At("main", "loop") => state.frame_seq <= ncallback)

\* Two paints were stored, the second of another size than the first, and
\* both were counted.
TwoPaintsStored ==
  /\ At("main", "loop")
  /\ state.frame_seq = 2 /\ ncallback = 2
  /\ <<state.frame_width, state.frame_height>> = <<1, 1>>

\* The text is a decimal integer, read to its last character, within int32.
IsInt32(text) ==
  /\ text # <<>>
  /\ Strtol10(text).end = Len(text) + 1
  /\ ~Strtol10(text).big

\* C20 as stated: an answered /input?type=click request whose x and y are
\* both integers >= 0 has posted NativeInput(click, x, y, 0) and nothing else
\* (or had that post rejected); any other has been answered 400 and has
\* posted nothing.
ClickNeedsValidCoordinates ==
  (req.path = "/input" /\ input_type = Word("click") /\ conn.status # 0) =>
    LET x == GetParam(req, "x")
        y == GetParam(req, "y")
    IN IF IsInt32(x) /\ IsInt32(y) /\ Strtol10(x).value >= 0 /\ Strtol10(y).value >= 0
         THEN /\ conn.status \in {200, 500}
              /\ conn.status = 200 =>
                   conn.posted = << NativeInputTask("MouseClick", Strtol10(x).value,
                                                    Strtol10(y).value, 0) >>
              /\ conn.status = 500 => conn.posted = <<>> /\ conn.rejected = 1
         ELSE conn.status = 400 /\ conn.posted = <<>> /\ conn.rejected = 0

\* The connection's request is a scroll and its command has been posted.
ScrollPosted ==
  /\ req.path = "/input" /\ input_type = Word("scroll")
  /\ conn.posted # <<>>

\* C19: a posted scroll is one MouseScroll command; without x (y) it carries
\* half, rounded down, of the frame_width (frame_height) the state held when
\* the handler read it under the lock, which is half the configured view
\* before any paint; without delta it carries 120; the x, y and delta that
\* were supplied are carried as they are.
ScrollDefaults ==
  /\ (pc["http"] = "scroll_post" /\ work["http"] = << Unlock("mu") >>) =>
       /\ "x" \notin DOMAIN req.query =>
            "frame_width" \in DOMAIN local /\ local.frame_width = state.frame_width
       /\ "y" \notin DOMAIN req.query =>
            "frame_height" \in DOMAIN local /\ local.frame_height = state.frame_height
  /\ ScrollPosted =>
       /\ Len(conn.posted) = 1
       /\ conn.posted[1].kind = "NativeInputTask" /\ conn.posted[1].input = "MouseScroll"
       /\ "x" \in DOMAIN req.query => conn.posted[1].x = 3
       /\ "y" \in DOMAIN req.query => conn.posted[1].y = 4
       /\ conn.posted[1].delta = IF "delta" \in DOMAIN req.query THEN 0 - 9 ELSE 120
       /\ ("x" \notin DOMAIN req.query /\ "frame_width" \in DOMAIN local) =>
            /\ conn.posted[1].x = local.frame_width \div 2
            /\ 2 * conn.posted[1].x \in {local.frame_width, local.frame_width - 1}
       /\ ("y" \notin DOMAIN req.query /\ "frame_height" \in DOMAIN local) =>
            /\ conn.posted[1].y = local.frame_height \div 2
            /\ 2 * conn.posted[1].y \in {local.frame_height, local.frame_height - 1}
       /\ ("x" \notin DOMAIN req.query /\ state.frame_seq = 0) =>
            conn.posted[1].x = 512 /\ conn.posted[1].y = 320
       /\ ("x" \notin DOMAIN req.query) =>
            <<conn.posted[1].x, conn.posted[1].y>> \in {<<512, 320>>, <<0, 0>>, <<1, 0>>}

\* A scroll without x, y and delta was posted after the 2 by 1 paint.
ScrollAtMiddleOfPaintedFrame ==
  /\ ScrollPosted /\ req.query = [type |-> Word("scroll")]
  /\ state.frame_seq = 1
  /\ conn.posted = << NativeInputTask("MouseScroll", 1, 0, 120) >>

RECURSIVE PercentDecoded(_, _)
PercentDecoded(text, i) ==
  IF i > Len(text) THEN <<>>
  ELSE IF text[i] = "+" THEN <<" ">> \o PercentDecoded(text, i + 1)
  ELSE IF text[i] = "%" /\ i + 2 <= Len(text) /\ IsHex(text[i + 1]) /\ IsHex(text[i + 2])
    THEN << Chr(16 * HexVal(text[i + 1]) + HexVal(text[i + 2])) >>
           \o PercentDecoded(text, i + 3)
  ELSE <<text[i]>> \o PercentDecoded(text, i + 1)

\* C24 as stated: for every text over the alphabet, UrlDecode returns the
\* text with each %XY (X, Y hexadecimal) replaced by the byte XY, each '+' by
\* a space and every other '%' left where it is.
UrlDecodeIsPercentDecoding ==
  "out" \in DOMAIN local => local.out = PercentDecoded(local.text, 1)

\* The pairs of a text: the maximal non-empty stretches free of '&', each as
\* <<first, last>>.
PairsOf(text) ==
  { s \in (1..Len(text)) \X (1..Len(text)) :
      /\ s[1] <= s[2]
      /\ \A i \in s[1]..s[2] : text[i] # "&"
      /\ (s[1] = 1 \/ text[s[1] - 1] = "&")
      /\ (s[2] = Len(text) \/ text[s[2] + 1] = "&") }

\* The raw key and the raw value of a pair: what is before and after its
\* first '=', the whole pair and nothing when it has none.
RawKey(text, s) ==
  LET eqs == { i \in s[1]..s[2] : text[i] = "=" }
  IN IF eqs = {} THEN SubSeq(text, s[1], s[2])
     ELSE SubSeq(text, s[1], (CHOOSE i \in eqs : \A j \in eqs : i <= j) - 1)

RawValue(text, s) ==
  LET eqs == { i \in s[1]..s[2] : text[i] = "=" }
  IN IF eqs = {} THEN <<>>
     ELSE SubSeq(text, (CHOOSE i \in eqs : \A j \in eqs : i <= j) + 1, s[2])

\* C25: ParseUrlEncoded returns the map whose keys are the decoded raw keys of
\* the non-empty '&'-separated pairs of the text, each pair split at its first
\* '=' before decoding (a pair without '=' is a key with the empty value), and
\* whose value for a key is the decoded raw value of the last pair with that
\* decoded key.
FormParsedBySplittingFirst ==
  "out" \in DOMAIN local =>
    LET text == local.text
        out == local.out
    IN /\ DOMAIN out = { UrlDecode(RawKey(text, s)) : s \in PairsOf(text) }
       /\ \A s \in PairsOf(text) :
            (\A o \in PairsOf(text) :
               UrlDecode(RawKey(text, o)) = UrlDecode(RawKey(text, s)) => o[1] <= s[1])
              => out[UrlDecode(RawKey(text, s))] = UrlDecode(RawValue(text, s))

\* C25 witness: "a=1&%61=2" was parsed; the encoded key is the duplicate of
\* the first one and its value is the one kept.
DuplicateKeyParsed ==
  /\ "out" \in DOMAIN local
  /\ local.text = <<"a", "=", "1", "&", "%", "6", "1", "=", "2">>
  /\ local.out = [k \in {<<"a">>} |-> <<"2">>]

\* The bytes hold a header terminator.
Terminated(raw) ==
  \E i \in 1..(Len(raw) - 3) :
    raw[i] = "\r" /\ raw[i + 1] = "\n" /\ raw[i + 2] = "\r" /\ raw[i + 3] = "\n"

\* The request line of terminated bytes: what is before the first line feed.
FirstLine(raw) ==
  SubSeq(raw, 1, (CHOOSE i \in 1..Len(raw) :
                    raw[i] = "\n" /\ \A j \in 1..(i - 1) : raw[j] # "\n") - 1)

\* Where the tokens of a line start.
TokenStarts(line) ==
  { i \in 1..Len(line) : ~IsSpace(line[i]) /\ (i = 1 \/ IsSpace(line[i - 1])) }

Malformed(raw) ==
  ~Terminated(raw) \/ Cardinality(TokenStarts(FirstLine(raw))) < 3

\* C22: the bytes read from a connection are answered 400 "parse failed"
\* exactly when they have no header terminator or their request line has
\* fewer than three tokens; the connection is then closed, and no step of the
\* listener on that connection changes a state field or posts a command.
MalformedRequestRefused ==
  /\ [](  (conn.client = "wire" /\ conn.raw # <<>> /\ conn.responses = 1)
            => /\ (conn.status = 400 /\ conn.body = Error("parse failed"))
                    <=> Malformed(conn.raw)
               /\ (Malformed(conn.raw) /\ At("http", "loop")) => ~conn.open )
  /\ [][ (conn.client = "wire" /\ conn.raw # <<>> /\ Malformed(conn.raw) /\ Taken("http"))
           => /\ state' = state
              /\ ui_queue' = ui_queue
              /\ conn'.posted = <<>> ]_vars

\* C22 witness: "GET /status" and a blank line were answered 400 and the
\* connection is closed.
TwoTokenLineRefused ==
  /\ At("http", "loop")
  /\ conn.raw = <<"G", "E", "T", " ">> \o StatusTarget \o CRLF \o CRLF
  /\ conn.status = 400 /\ conn.body = Error("parse failed")
  /\ ~conn.open

\* C23 as stated: when the peer closes before the request is complete (its
\* head and the body length its length header declares), the listener does
\* not dispatch the request to a route, changes no counter and posts no
\* command.
CutShortReadAborts ==
  (conn.client = "wire" /\ pc["http"] # "recv" /\ ~ReadComplete(conn.raw))
    => /\ pc["http"] # "route"
       /\ conn.posted = <<>>
       /\ << state.open_requests, state.eval_requests, state.input_requests >> = conn.before

\* The listener has returned from ServeHttp on a --bind value it refuses.
GaveUpOnBindAddr ==
  /\ state.bind_addr \in BadBindAddrs
  /\ pc["http"] = "exit" /\ ~Busy("http")

\* C26 as stated: with a --bind value that does not parse, whose host is not
\* dotted IPv4 or localhost, or whose port is outside 1..65535, no connection
\* is accepted and no command is posted or executed, and once the listener
\* has given up the control thread does not go on in the engine's loop: its
\* next step leaves the loop.
BadBindAddrIsFatal ==
  /\ [](state.bind_addr \in BadBindAddrs
          => nreq = 0 /\ ui_queue = <<>> /\ cef.loads = <<>>)
  /\ [][ (GaveUpOnBindAddr /\ Taken("main")) => pc'["main"] # "loop" ]_vars

\* The fields of /status that count.
CountingFields == {"open_requests", "eval_requests", "input_requests", "frame_seq"}

\* C27 as stated: an answer of /status that follows another one with no
\* request to a command route handled in between has the same value in every
\* field but the counters and frame_seq, and those are not smaller.
StatusRepeats ==
  (conn.status = 200 /\ req.path = "/status" /\ conn.prev # <<>>)
    => \A f \in DOMAIN conn.body :
         IF f \in CountingFields
           THEN conn.body[f] >= conn.prev[1][f]
           ELSE conn.body[f] = conn.prev[1][f]

\* The request of the open connection was parsed and has been answered.
Dispatched ==
  /\ conn.status # 0
  /\ \/ conn.client = "request"
     \/ conn.client = "wire" /\ conn.raw # <<>> /\ ParseHttpRequest(conn.raw).ok

\* C28: a request whose path is exactly /status is answered 200, one whose
\* path is exactly /frame 200 or 503, and one whose path is no route's 404;
\* none of them posts a command, and no step the listener takes on such a
\* connection changes a field of the session state or the queue.
ReadOnlyRoutesChangeNothing ==
  /\ [](Dispatched =>
          /\ req.path = "/status" => conn.status = 200
          /\ req.path = "/frame" => conn.status \in {200, 503}
          /\ req.path \notin Routes => conn.status = 404
          /\ req.path \notin CommandRoutes => conn.posted = <<>>)
  /\ [][ (conn.id # 0 /\ req.path \notin CommandRoutes /\ Taken("http"))
           => state' = state /\ ui_queue' = ui_queue ]_vars

\* C28 witness: "GET /status/" was answered 404 and the connection is closed.
NearStatusNotFound ==
  /\ At("http", "loop")
  /\ conn.raw = GET(StatusTarget \o <<"/">>) \o CRLF
  /\ conn.status = 404 /\ ~conn.open

\* What a script engine reads between the quotes of a single-quoted
\* literal: [ok, value], not ok when the literal ends early (a bare quote),
\* holds a raw line end, or stops in the middle of an escape.
RECURSIVE JsLiteral(_)
JsLiteral(body) ==
  IF body = <<>> THEN [ok |-> TRUE, value |-> <<>>]
  ELSE IF Head(body) \in {"'", "\n", "\r"} THEN [ok |-> FALSE, value |-> <<>>]
  ELSE IF Head(body) = "\\"
    THEN IF Len(body) < 2 THEN [ok |-> FALSE, value |-> <<>>]
         ELSE LET c == body[2]
                  rest == JsLiteral(SubSeq(body, 3, Len(body)))
              IN [ok |-> rest.ok,
                  value |-> << CASE c = "n" -> "\n" [] c = "r" -> "\r" [] OTHER -> c >>
                              \o rest.value]
    ELSE LET rest == JsLiteral(Tail(body))
         IN [ok |-> rest.ok, value |-> <<Head(body)>> \o rest.value]

\* How often c occurs in a text.
Occurrences(text, c) == Cardinality({ i \in 1..Len(text) : text[i] = c })

\* The string that a text or key request wants typed.
Typed(r) ==
  IF ToLowerAscii(r.query.type) = Word("text") THEN r.query.text
  ELSE IF "key" \in DOMAIN r.query /\ r.query.key # <<>> THEN r.query.key
  ELSE Word("Enter")

\* C29: the script of a text or key request is the opening of a literal, the
\* escaped string and the rest; the escaped string has no raw line end and no
\* quote that ends the literal, reads back as the string of the request
\* ("Enter" for a key request without key), and has two backslashes for each
\* backslash of the string and one for each quote and line end.
ScriptLiteralHoldsText ==
  "out" \in DOMAIN local =>
    LET typed == Typed(local.text)
        escaped == SubSeq(local.out, 2, Len(local.out) - 1)
    IN /\ Len(local.out) >= 2
       /\ \A i \in 1..Len(escaped) : escaped[i] \notin {"\n", "\r"}
       /\ \A i \in 1..Len(escaped) :
            escaped[i] = "'" => (i > 1 /\ escaped[i - 1] = "\\")
       /\ JsLiteral(escaped) = [ok |-> TRUE, value |-> typed]
       /\ Occurrences(escaped, "\\") =
            2 * Occurrences(typed, "\\") + Occurrences(typed, "'")
              + Occurrences(typed, "\n") + Occurrences(typed, "\r")

\* C29 witness: the script for typing a quote, a backslash and a line feed.
QuoteBackslashNewlineEscaped ==
  /\ "out" \in DOMAIN local
  /\ local.text.query.type = Word("text")
  /\ local.text.query.text = <<"'", "\\", "\n">>
  /\ SubSeq(local.out, 2, Len(local.out) - 1) = <<"\\", "'", "\\", "\\", "\\", "n">>

\* C30: once the listener runs, current_url is written only by the control
\* thread, right after it had the browser load that very url, never by a step
\* of the listener; and a /status answered while no OpenUrlTask has loaded
\* anything yet reports the start url, whatever /open requests were
\* acknowledged before it.
CurrentUrlFollowsExecution ==
  /\ [][ (Started /\ state'.current_url # state.current_url)
           => /\ Taken("main") /\ ~Taken("http")
              /\ cef.last_call = [by |-> "main", call |-> <<"LoadURL", state'.current_url>>]
              /\ cef.loads # <<>> /\ cef.loads[Len(cef.loads)] = state'.current_url
              /\ g_browser ]_vars
  /\ []( (conn.status = 200 /\ req.path = "/status" /\ cef.loads = <<>> /\ Started)
           => conn.body.current_url = JsonEscape(start_url) )

\* C30 witness: the second connection's /status was answered with the start
\* url while the OpenUrlTask that the first connection's /open posted is
\* still in the queue.
StatusBeforeOpenExecutes ==
  /\ conn.id = 2 /\ req.path = "/status" /\ conn.status = 200
  /\ ui_queue = << OpenUrlTask(<<"a">>) >>
  /\ state.open_requests = 1
  /\ conn.body.current_url = JsonEscape(start_url)

LastErrorSticks ==
  [][state.last_error # "" => state'.last_error # ""]_vars

\* C32 witness: an OpenUrlTask found no session and recorded it; a later one
\* has loaded its url and just written current_url, and the error text is
\* still there.
ErrorOutlivesLaterSuccess ==
  /\ state.last_error = "open failed: browser not ready"
  /\ pc["main"] = "loop" /\ work["main"] = << Unlock("mu") >>
  /\ cef.last_call.call[1] = "LoadURL"
  /\ state.current_url = cef.loads[Len(cef.loads)]

\* The request was refused as lacking its parameter: nothing was posted.
RefusedAsMissing ==
  conn.status = 400 /\ conn.posted = <<>> /\ conn.rejected = 0

\* The request's command was posted with this value, or the post rejected.
PostedWith(value) ==
  \/ /\ conn.status = 200
     /\ conn.posted = << IF req.path = "/open" THEN OpenUrlTask(value) ELSE EvalTask(value) >>
  \/ conn.status = 500 /\ conn.posted = <<>> /\ conn.rejected = 1

\* C33: for an answered /open (key url) or /eval (key js) request: a key in
\* the query string decides, so an empty query value is answered 400 even
\* when the form has a value, and a non-empty one is what is posted; the
\* form's value is used only when the query string lacks the key; with the
\* key in neither the request is answered 400.
QueryBeforeForm ==
  (Dispatched /\ conn.client = "wire" /\ req.path \in {"/open", "/eval"}) =>
    LET key == IF req.path = "/open" THEN "url" ELSE "js"
    IN /\ (key \in DOMAIN req.query /\ req.query[key] = <<>>) => RefusedAsMissing
       /\ (key \in DOMAIN req.query /\ req.query[key] # <<>>) => PostedWith(req.query[key])
       /\ (key \notin DOMAIN req.query /\ key \in DOMAIN req.form)
            => IF req.form[key] = <<>> THEN RefusedAsMissing ELSE PostedWith(req.form[key])
       /\ (key \notin DOMAIN req.query /\ key \notin DOMAIN req.form) => RefusedAsMissing

\* C33 witness: "POST /open?url=" with the form body "url=b" was answered 400.
EmptyQueryValueHidesForm ==
  /\ At("http", "loop")
  /\ conn.raw = FormPost(OpenUrlTarget(<<>>), <<"u", "r", "l", "=", "b">>, <<"5">>)
  /\ req.query = [url |-> <<>>] /\ req.form = [url |-> <<"b">>]
  /\ conn.status = 400 /\ conn.body = Error("missing url")

\* C34: after every call of cpp_clear_screen, cpp_set_color and cpp_putc the
\* cursor is inside the screen (cursor_row <= 24, cursor_col <= 79) and every
\* cell the call wrote has an index below 2000; and a backspace at column 0
\* leaves cursor and colour as they are and writes no cell.
CursorInsideScreen ==
  /\ [](/\ driver.cursor_row \in 0..24
        /\ driver.cursor_col \in 0..79
        /\ \A i \in driver.written : i \in 0..1999)
  /\ [][ (driver'.call = <<"cpp_putc", Backspace>> /\ driver.cursor_col = 0)
           => /\ driver'.cursor_row = driver.cursor_row
              /\ driver'.cursor_col = driver.cursor_col
              /\ driver'.color = driver.color
              /\ driver'.written = {} ]_vars

\* C34 witness: a newline on the last row scrolled the screen, and the cursor
\* is at the start of the last row.
ScrolledOnLastRow ==
  /\ driver.call = <<"cpp_putc", "\n">>
  /\ driver.cursor_row = 24 /\ driver.cursor_col = 0
  /\ driver.written = 0..1999

====
